---- MODULE Spec2Model ----
(***************************************************************************)
(* Model of compress-utils' WebAssembly surface: the per-algorithm codec   *)
(* adapters (binding.cpp), the streaming sessions built on TransformStream *)
(* (stream.ts) and the module loader (core/loader.ts).                     *)
(*                                                                         *)
(* The wrapped codec libraries are external.  They are modelled by a small *)
(* block codec that keeps what the adapters depend on: input is buffered   *)
(* into blocks, produced bytes wait in an internal queue until the caller's *)
(* output buffer has room, a call stops consuming input once the output    *)
(* buffer is full, and the stream ends with an end marker written by the   *)
(* finish operation.  Sizes are scaled down (a block is BlockMax bytes).   *)
(***************************************************************************)
EXTENDS Integers, Sequences, FiniteSets, TLC

\* ------------------------------------------------------------------------
\* Bounds of the model
\* ------------------------------------------------------------------------
MaxLen == 3
MaxWrites == 3
BlockMax == 2
MaxRequests == 3

\* ------------------------------------------------------------------------
\* Small helpers
\* ------------------------------------------------------------------------
Min(a, b) == IF a < b THEN a ELSE b

SeqsUpTo(S, n) == UNION { [1..k -> S] : k \in 0..n }

Drop(s, k) == SubSeq(s, k + 1, Len(s))

Take(s, k) == SubSeq(s, 1, k)

RECURSIVE Flatten(_)
Flatten(ss) == IF ss = <<>> THEN <<>> ELSE Head(ss) \o Flatten(Tail(ss))

\* ------------------------------------------------------------------------
\* Data
\* ------------------------------------------------------------------------
Algorithms == {"zstd", "zlib", "lz4"}

Bytes == {1, 2}

BufferSizes == {2, 8}

\* first byte of a frame of the block codec
Magic == 9

\* block header value that ends a frame
EndMark == 0

\* ------------------------------------------------------------------------
\* Codec context: the state behind a `void* ctx` of an adapter.
\*   hdr, buf, pend, ended : encoder (frame header produced, input buffered
\*                           for the current block, produced bytes not yet
\*                           handed out, end marker produced)
\*   stage, need           : decoder position in the frame
\*   finished              : the adapter's own `finished` flag
\*   ring_pos              : LZ4 adapter ring buffer position
\* ------------------------------------------------------------------------
NewContext ==
  [hdr |-> FALSE, buf |-> <<>>, pend |-> <<>>, ended |-> FALSE,
   stage |-> "magic", need |-> 0, finished |-> FALSE, ring_pos |-> 0]

\* ---- the library's streaming encoder -----------------------------------
\* One library call: hand out queued bytes while the output has room, stop
\* when the output is full, otherwise consume input a byte at a time and
\* queue a block whenever BlockMax bytes are buffered.
RECURSIVE EncodeRun(_, _, _, _, _)
EncodeRun(c, in, cap, out, used) ==
  LET c1 == IF c.hdr THEN c ELSE [c EXCEPT !.hdr = TRUE, !.pend = <<Magic>>]
      k  == Min(cap - Len(out), Len(c1.pend))
      o2 == out \o Take(c1.pend, k)
      c2 == [c1 EXCEPT !.pend = Drop(c1.pend, k)]
  IN  IF c2.pend # <<>> \/ in = <<>>
      THEN [ctx |-> c2, out |-> o2, used |-> used]
      ELSE LET b  == Append(c2.buf, Head(in))
               c3 == IF Len(b) = BlockMax
                     THEN [c2 EXCEPT !.buf = <<>>, !.pend = <<BlockMax>> \o b]
                     ELSE [c2 EXCEPT !.buf = b]
           IN  EncodeRun(c3, Tail(in), cap, o2, used + 1)

\* The library's end operation: close the last block, queue the end marker
\* (once), hand out as much of the queue as fits.
EncodeEnd(c, cap) ==
  LET c1 == IF c.hdr THEN c ELSE [c EXCEPT !.hdr = TRUE, !.pend = <<Magic>>]
      c2 == IF c1.ended THEN c1
            ELSE [c1 EXCEPT !.ended = TRUE, !.buf = <<>>,
                            !.pend = c1.pend
                                     \o (IF c1.buf = <<>> THEN <<>>
                                         ELSE <<Len(c1.buf)>> \o c1.buf)
                                     \o <<EndMark>>]
      k  == Min(cap, Len(c2.pend))
  IN  [ctx |-> [c2 EXCEPT !.pend = Drop(c2.pend, k)],
       out |-> Take(c2.pend, k),
       remaining |-> Len(c2.pend) - k]

\* ---- the library's streaming decoder -----------------------------------
\* One library call: parse input until it is consumed, the frame ends, the
\* data is invalid, or a data byte finds the output full.
RECURSIVE DecodeRun(_, _, _, _, _)
DecodeRun(c, in, cap, out, used) ==
  IF c.stage = "done" THEN [ctx |-> c, out |-> out, used |-> used, rc |-> "end"]
  ELSE IF in = <<>> THEN [ctx |-> c, out |-> out, used |-> used, rc |-> "ok"]
  ELSE LET b == Head(in) IN
    CASE c.stage = "magic" ->
           IF b = Magic
           THEN DecodeRun([c EXCEPT !.stage = "hdr"], Tail(in), cap, out, used + 1)
           ELSE [ctx |-> c, out |-> out, used |-> used, rc |-> "err"]
      [] c.stage = "hdr" ->
           IF b = EndMark
           THEN DecodeRun([c EXCEPT !.stage = "done"], Tail(in), cap, out, used + 1)
           ELSE IF b \in 1..BlockMax
           THEN DecodeRun([c EXCEPT !.stage = "data", !.need = b],
                          Tail(in), cap, out, used + 1)
           ELSE [ctx |-> c, out |-> out, used |-> used, rc |-> "err"]
      [] OTHER ->
           IF Len(out) >= cap
           THEN [ctx |-> c, out |-> out, used |-> used, rc |-> "ok"]
           ELSE DecodeRun([c EXCEPT !.need = c.need - 1,
                                    !.stage = IF c.need = 1 THEN "hdr" ELSE "data"],
                          Tail(in), cap, Append(out, b), used + 1)

\* ---- LZ4 block functions ------------------------------------------------
\* A block is a token carrying the literal length followed by the literals;
\* it is not self-delimiting, the caller passes its exact size.
LZ4_compress(src, dstCapacity) ==
  IF Len(src) + 1 <= dstCapacity THEN <<Len(src)>> \o src ELSE <<>>

LZ4_decompress_safe(block, dstCapacity) ==
  IF block # <<>> /\ block[1] = Len(block) - 1 /\ Len(block) - 1 <= dstCapacity
  THEN [rc |-> Len(block) - 1, data |-> Tail(block)]
  ELSE [rc |-> -1, data |-> <<>>]

\* ------------------------------------------------------------------------
\* Program constants of the LZ4 adapter
\* ------------------------------------------------------------------------
RING_BUFFER_SIZE == 65536

BLOCK_SIZE == 65536

\* ------------------------------------------------------------------------
\* Codec adapters (binding.cpp).  Every operation returns
\*   ctx  : the context after the call
\*   rc   : the int32 the adapter returns
\*   out  : the bytes it wrote at the start of the output buffer
\*   used : how many input bytes the codec really consumed (the adapter
\*          does not report this number; it is kept to compare against)
\* `fault` stands for the library reporting an internal error.
\* ------------------------------------------------------------------------
Failure(c) == [ctx |-> c, rc |-> -1, out |-> <<>>, used |-> 0]

\* ---- zstd ----------------------------------------------------------------
RECURSIVE zstd_compress_loop(_, _, _, _, _)
zstd_compress_loop(c, in, cap, out, used) ==
  IF in = <<>>
  THEN [ctx |-> c, rc |-> Len(out), out |-> out, used |-> used]
  ELSE LET r == EncodeRun(c, in, cap, out, 0)
           rest == Drop(in, r.used)
       IN  IF Len(r.out) = cap /\ rest # <<>>
           THEN [ctx |-> r.ctx, rc |-> Len(r.out), out |-> r.out,
                 used |-> used + r.used]
           ELSE zstd_compress_loop(r.ctx, rest, cap, r.out, used + r.used)

zstd_cu_stream_compress_write(c, in, cap, fault) ==
  IF c.finished THEN Failure(c)
  ELSE IF fault /\ in # <<>> THEN Failure(c)
  ELSE zstd_compress_loop(c, in, cap, <<>>, 0)

\* libzstd closes the frame once it is fully flushed and resets the session,
\* so a later end request on the same stream opens and closes a new frame.
ZSTD_endStream(c, cap) ==
  LET r == EncodeEnd(c, cap)
  IN  IF r.remaining = 0
      THEN [r EXCEPT !.ctx = [r.ctx EXCEPT !.hdr = FALSE, !.ended = FALSE]]
      ELSE r

zstd_cu_stream_compress_finish(c, cap, fault) ==
  IF fault THEN Failure(c)
  ELSE LET r == ZSTD_endStream(c, cap)
       IN  [ctx |-> IF r.remaining = 0 THEN [r.ctx EXCEPT !.finished = TRUE]
                    ELSE r.ctx,
            rc |-> Len(r.out), out |-> r.out, used |-> 0]

RECURSIVE zstd_decompress_loop(_, _, _, _, _)
zstd_decompress_loop(c, in, cap, out, used) ==
  IF in = <<>>
  THEN [ctx |-> c, rc |-> Len(out), out |-> out, used |-> used]
  ELSE LET r == DecodeRun(c, in, cap, out, 0)
           rest == Drop(in, r.used)
       IN  IF r.rc = "err" THEN Failure(r.ctx)
           ELSE IF r.rc = "end"
           THEN [ctx |-> [r.ctx EXCEPT !.finished = TRUE], rc |-> Len(r.out),
                 out |-> r.out, used |-> used + r.used]
           ELSE IF Len(r.out) = cap /\ rest # <<>>
           THEN [ctx |-> r.ctx, rc |-> Len(r.out), out |-> r.out,
                 used |-> used + r.used]
           ELSE zstd_decompress_loop(r.ctx, rest, cap, r.out, used + r.used)

zstd_cu_stream_decompress_write(c, in, cap, fault) ==
  IF c.finished THEN Failure(c)
  ELSE IF fault /\ in # <<>> THEN Failure(c)
  ELSE zstd_decompress_loop(c, in, cap, <<>>, 0)

\* ---- zlib (brotli, xz and bz2 have the same shape) ----------------------
zlib_cu_stream_compress_write(c, in, cap, fault) ==
  IF c.finished THEN Failure(c)
  ELSE IF fault THEN Failure(c)
  ELSE LET r == EncodeRun(c, in, cap, <<>>, 0)
       IN  [ctx |-> r.ctx, rc |-> Len(r.out), out |-> r.out, used |-> r.used]

\* deflate(Z_FINISH) on a stream that already ended reports Z_STREAM_END
\* again and writes nothing.
zlib_cu_stream_compress_finish(c, cap, fault) ==
  IF fault THEN Failure(c)
  ELSE LET r == EncodeEnd(c, cap)
       IN  [ctx |-> IF r.remaining = 0 THEN [r.ctx EXCEPT !.finished = TRUE]
                    ELSE r.ctx,
            rc |-> Len(r.out), out |-> r.out, used |-> 0]

zlib_cu_stream_decompress_write(c, in, cap, fault) ==
  IF c.finished THEN Failure(c)
  ELSE IF fault THEN Failure(c)
  ELSE LET r == DecodeRun(c, in, cap, <<>>, 0)
       IN  IF r.rc = "err" THEN Failure(r.ctx)
           ELSE [ctx |-> IF r.rc = "end" THEN [r.ctx EXCEPT !.finished = TRUE]
                         ELSE r.ctx,
                 rc |-> Len(r.out), out |-> r.out, used |-> r.used]

\* ---- lz4 -------------------------------------------------------------------
lz4_cu_stream_compress_write(c, in, cap, fault) ==
  IF c.finished THEN Failure(c)
  ELSE LET input_len == Min(Len(in), BLOCK_SIZE)
           block == IF fault THEN <<>>
                    ELSE LZ4_compress(Take(in, input_len), cap - 4)
           compressed == Len(block)
       IN  IF compressed <= 0 THEN Failure(c)
           ELSE [ctx |-> [c EXCEPT !.ring_pos =
                            (c.ring_pos + input_len) % RING_BUFFER_SIZE],
                 rc |-> compressed + 4,
                 out |-> <<input_len % 256, (input_len \div 256) % 256,
                           compressed % 256, (compressed \div 256) % 256>>
                         \o block,
                 used |-> input_len]

\* a finish that writes the end marker without looking at output_cap
lz4_cu_stream_compress_finish_NoCapCheck(c, cap, fault) ==
  [ctx |-> [c EXCEPT !.finished = TRUE], rc |-> 4, out |-> <<0, 0, 0, 0>>, used |-> 0]

lz4_cu_stream_compress_finish(c, cap, fault) ==
  IF cap >= 4
  THEN [ctx |-> [c EXCEPT !.finished = TRUE], rc |-> 4,
        out |-> <<0, 0, 0, 0>>, used |-> 0]
  ELSE [ctx |-> c, rc |-> 0, out |-> <<>>, used |-> 0]

lz4_cu_stream_decompress_write(c, in, cap, fault) ==
  IF c.finished THEN Failure(c)
  ELSE IF Len(in) < 4 THEN [ctx |-> c, rc |-> 0, out |-> <<>>, used |-> 0]
  ELSE LET orig_size == in[1] + 256 * in[2]
           comp_size == in[3] + 256 * in[4]
       IN  IF orig_size = 0 /\ comp_size = 0
           THEN [ctx |-> [c EXCEPT !.finished = TRUE], rc |-> 0, out |-> <<>>,
                 used |-> 4]
           ELSE IF Len(in) < comp_size + 4
           THEN [ctx |-> c, rc |-> 0, out |-> <<>>, used |-> 0]
           ELSE IF cap < orig_size THEN Failure(c)
           ELSE LET r == IF fault THEN [rc |-> -1, data |-> <<>>]
                         ELSE LZ4_decompress_safe(SubSeq(in, 5, 4 + comp_size), cap)
                IN  IF r.rc < 0 THEN Failure(c)
                    ELSE [ctx |-> c, rc |-> r.rc, out |-> r.data,
                          used |-> 4 + comp_size]

\* ---- dispatch on the algorithm ------------------------------------------
cu_stream_compress_write(alg, c, in, cap, fault) ==
  CASE alg = "zstd" -> zstd_cu_stream_compress_write(c, in, cap, fault)
    [] alg = "lz4"  -> lz4_cu_stream_compress_write(c, in, cap, fault)
    [] OTHER        -> zlib_cu_stream_compress_write(c, in, cap, fault)

cu_stream_compress_finish(alg, c, cap, fault) ==
  CASE alg = "zstd" -> zstd_cu_stream_compress_finish(c, cap, fault)
    [] alg = "lz4"  -> lz4_cu_stream_compress_finish(c, cap, fault)
    [] OTHER        -> zlib_cu_stream_compress_finish(c, cap, fault)

cu_stream_decompress_write(alg, c, in, cap, fault) ==
  CASE alg = "zstd" -> zstd_cu_stream_decompress_write(c, in, cap, fault)
    [] alg = "lz4"  -> lz4_cu_stream_decompress_write(c, in, cap, fault)
    [] OTHER        -> zlib_cu_stream_decompress_write(c, in, cap, fault)

\* the same in all adapters: 1 finished, 0 not finished
cu_stream_decompress_finish(c) == IF c.finished THEN 1 ELSE 0


\* ------------------------------------------------------------------------
\* One-shot adapters.  A result is [ok, data]; ok = FALSE is the nullptr
\* return.
\* ------------------------------------------------------------------------
Null == [ok |-> FALSE, data |-> <<>>]

\* compressBound / ZSTD_compressBound / LZ4_compressBound of the block codec
compressBound(n) == 2 * n + 16

zlib_cu_compress(input) ==
  LET max_size == compressBound(Len(input))
      r == EncodeRun(NewContext, input, max_size, <<>>, 0)
      e == EncodeEnd(r.ctx, max_size - Len(r.out))
  IN  IF e.remaining = 0 THEN [ok |-> TRUE, data |-> r.out \o e.out] ELSE Null

\* cu_compress that stores the size with the most significant byte first
lz4_cu_compress_BigEndian(input) ==
  LET max_size == compressBound(Len(input))
      n == Len(input)
      block == LZ4_compress(input, max_size)
  IN  IF Len(block) <= 0 THEN Null
      ELSE [ok |-> TRUE,
            data |-> <<(n \div 16777216) % 256, (n \div 65536) % 256,
                       (n \div 256) % 256, n % 256>> \o block]

lz4_cu_compress(input) ==
  LET max_size == compressBound(Len(input))
      n == Len(input)
      block == LZ4_compress(input, max_size)
  IN  IF Len(block) <= 0 THEN Null
      ELSE [ok |-> TRUE,
            data |-> <<n % 256, (n \div 256) % 256, (n \div 65536) % 256,
                       (n \div 16777216) % 256>> \o block]

cu_compress(alg, input) ==
  IF alg = "lz4" THEN lz4_cu_compress(input) ELSE zlib_cu_compress(input)

\* uncompress: one frame, bytes after its end are ignored
zlib_cu_decompress(input) ==
  LET alloc_size == IF Len(input) * 4 < 1024 THEN 1024 ELSE Len(input) * 4
      r == DecodeRun(NewContext, input, alloc_size, <<>>, 0)
  IN  IF r.rc = "end" THEN [ok |-> TRUE, data |-> r.out] ELSE Null

\* ZSTD_decompress: one or more complete frames, nothing else
RECURSIVE zstd_cu_decompress(_)
zstd_cu_decompress(input) ==
  LET alloc_size == IF Len(input) * 4 < 1024 THEN 1024 ELSE Len(input) * 4
      r == DecodeRun(NewContext, input, alloc_size, <<>>, 0)
      rest == Drop(input, r.used)
  IN  IF r.rc # "end" THEN Null
      ELSE IF rest = <<>> THEN [ok |-> TRUE, data |-> r.out]
      ELSE LET t == zstd_cu_decompress(rest)
           IN  IF t.ok THEN [ok |-> TRUE, data |-> r.out \o t.data] ELSE Null

lz4_cu_decompress(input) ==
  IF Len(input) < 4 THEN Null
  ELSE LET original_size == input[1] + 256 * input[2] + 65536 * input[3]
                            + 16777216 * input[4]
       IN  IF original_size > 2147483647 THEN Null
           ELSE LET r == LZ4_decompress_safe(Drop(input, 4), original_size)
                IN  IF r.rc < 0 THEN Null ELSE [ok |-> TRUE, data |-> r.data]

cu_decompress(alg, input) ==
  CASE alg = "zstd" -> zstd_cu_decompress(input)
    [] alg = "lz4"  -> lz4_cu_decompress(input)
    [] OTHER        -> zlib_cu_decompress(input)


\* ------------------------------------------------------------------------
\* Streaming sessions (stream.ts): the callbacks handed to TransformStream.
\* The zstd session guards its adapter call with
\* `while (inputOffset < chunk.length)`, so an empty chunk makes no call;
\* the zlib session always makes one call.  The lz4 adapter is driven by the
\* zstd session's template.
\* ------------------------------------------------------------------------
SessionSkipsEmptyChunk(alg) == alg \in {"zstd", "lz4"}

\* copyFromWasm(memory, outputPtr, result): a fresh copy of the first
\* `length` bytes of the output buffer
copyFromWasm(buffer, length) == Take(buffer, length)

\* a result that is the view into WebAssembly memory itself
new_Uint8Array_Alias(bytes) == [view |-> TRUE, length |-> Len(bytes), data |-> <<>>]

\* `new Uint8Array(view)` at the end of copyFromWasm: an array with its own
\* storage, filled from the view
new_Uint8Array(bytes) == [view |-> FALSE, length |-> Len(bytes), data |-> bytes]

\* what reading a Uint8Array gives: its own storage, or for a view the
\* bytes now at the start of the output buffer
ChunkContents(chunk, memory) ==
  IF chunk.view THEN Take(memory, chunk.length) ELSE chunk.data

\* the output buffer after adapter calls that wrote these outputs, each at
\* the start of the buffer
RECURSIVE memoryAfter(_, _)
memoryAfter(memory, outputs) ==
  IF outputs = <<>> THEN memory
  ELSE memoryAfter(Head(outputs) \o Drop(memory, Len(Head(outputs))),
                   Tail(outputs))

\* an adapter that keeps its context in one static object
cu_stream_compress_create_Static(heap) == 1

\* cu_stream_compress_create(level): the context is allocated with malloc,
\* which returns memory that is not in use (0 when there is none)
cu_stream_compress_create(heap) ==
  IF \A p \in DOMAIN heap : heap[p].used THEN 0
  ELSE CHOOSE p \in DOMAIN heap :
         ~heap[p].used /\ \A q \in DOMAIN heap : ~heap[q].used => p <= q

\* a controller that puts new chunks in front of the ones already queued
enqueue_AtFront(queue, chunks) == chunks \o queue

\* controller.enqueue(output), once per chunk a callback produced: the
\* readable side receives chunks in the order of the calls
enqueue(queue, chunks) == queue \o chunks

\* start() that returns normally after the failed malloc(bufferSize) instead
\* of throwing
Stream_start_OomNotThrown(modOK, createOK, mallocOK, errInit, errOom) ==
  IF ~modOK
  THEN [wasm |-> FALSE, ctx |-> 0, outputPtr |-> 0, ctxMem |-> "none",
        outMem |-> "none", destroyed |-> 0, err |-> errInit]
  ELSE IF ~createOK
  THEN [wasm |-> TRUE, ctx |-> 0, outputPtr |-> 0, ctxMem |-> "none",
        outMem |-> "none", destroyed |-> 0, err |-> errInit]
  ELSE IF ~mallocOK
  THEN [wasm |-> TRUE, ctx |-> 1, outputPtr |-> 0, ctxMem |-> "freed",
        outMem |-> "none", destroyed |-> 1, err |-> "none"]
  ELSE [wasm |-> TRUE, ctx |-> 1, outputPtr |-> 1, ctxMem |-> "live",
        outMem |-> "live", destroyed |-> 0, err |-> "none"]

\* start(): [wasm, ctx, outputPtr, ctxMem, outMem, destroyed, err]
\*   modOK    : getXxxModule() resolved
\*   createOK : cu_stream_*_create returned a context
\*   mallocOK : malloc(bufferSize) returned a buffer
Stream_start(modOK, createOK, mallocOK, errInit, errOom) ==
  IF ~modOK
  THEN [wasm |-> FALSE, ctx |-> 0, outputPtr |-> 0, ctxMem |-> "none",
        outMem |-> "none", destroyed |-> 0, err |-> errInit]
  ELSE IF ~createOK
  THEN [wasm |-> TRUE, ctx |-> 0, outputPtr |-> 0, ctxMem |-> "none",
        outMem |-> "none", destroyed |-> 0, err |-> errInit]
  ELSE IF ~mallocOK
  THEN [wasm |-> TRUE, ctx |-> 1, outputPtr |-> 0, ctxMem |-> "freed",
        outMem |-> "none", destroyed |-> 1, err |-> errOom]
  ELSE [wasm |-> TRUE, ctx |-> 1, outputPtr |-> 1, ctxMem |-> "live",
        outMem |-> "live", destroyed |-> 0, err |-> "none"]

\* transform(chunk, controller):
\*   [ctx, chunks enqueued, err thrown, failed (adapter returned < 0),
\*    calls (adapter calls made), used (input the codec consumed)]
Stream_transform(r, errFailed, errOom, alg, w, cx, c, chunk, inMallocOK) ==
  IF ~w \/ cx = 0
  THEN [ctx |-> c, chunks |-> <<>>, err |-> errFailed, failed |-> FALSE,
        calls |-> 0, used |-> 0]
  ELSE IF ~inMallocOK
  THEN [ctx |-> c, chunks |-> <<>>, err |-> errOom, failed |-> FALSE,
        calls |-> 0, used |-> 0]
  ELSE IF SessionSkipsEmptyChunk(alg) /\ chunk = <<>>
  THEN [ctx |-> c, chunks |-> <<>>, err |-> "none", failed |-> FALSE,
        calls |-> 0, used |-> 0]
  ELSE IF r.rc < 0
  THEN [ctx |-> r.ctx, chunks |-> <<>>, err |-> errFailed,
        failed |-> TRUE, calls |-> 1, used |-> 0]
  ELSE [ctx |-> r.ctx,
        chunks |-> IF r.rc > 0 THEN <<copyFromWasm(r.out, r.rc)>> ELSE <<>>,
        err |-> "none", failed |-> FALSE, calls |-> 1, used |-> r.used]

\* transform() that enqueues nothing and returns normally when the adapter
\* reports a failure, instead of throwing
CompressStream_transform_Swallow(alg, w, cx, c, chunk, bufferSize, inMallocOK, fault) ==
  LET r == Stream_transform(
             cu_stream_compress_write(alg, c, chunk, bufferSize, fault),
             "COMPRESSION_FAILED", "WASM_OOM", alg, w, cx, c, chunk,
             inMallocOK)
  IN  IF r.failed THEN [r EXCEPT !.err = "none"] ELSE r

CompressStream_transform(alg, w, cx, c, chunk, bufferSize, inMallocOK, fault) ==
  Stream_transform(cu_stream_compress_write(alg, c, chunk, bufferSize, fault),
                   "COMPRESSION_FAILED", "WASM_OOM", alg, w, cx, c, chunk,
                   inMallocOK)

DecompressStream_transform(alg, w, cx, c, chunk, bufferSize, inMallocOK, fault) ==
  Stream_transform(cu_stream_decompress_write(alg, c, chunk, bufferSize, fault),
                   "DECOMPRESSION_FAILED", "WASM_OOM", alg, w, cx, c, chunk,
                   inMallocOK)

\* The `while (!finished)` loop of CompressStream.flush.  The adapters are
\* deterministic, so a call that returns output and leaves the context in a
\* state the loop has already been in repeats for ever: res = "hung".
RECURSIVE CompressStream_flush_loop(_, _, _, _, _, _, _)
CompressStream_flush_loop(alg, c, bufferSize, fault, chunks, calls, seen) ==
  LET step(r) ==
        IF r.rc < 0
        THEN [ctx |-> r.ctx, chunks |-> chunks, res |-> "err",
              calls |-> calls + 1]
        ELSE IF r.rc = 0
        THEN [ctx |-> r.ctx, chunks |-> chunks, res |-> "done",
              calls |-> calls + 1]
        ELSE IF r.ctx \in seen
        THEN [ctx |-> r.ctx,
              chunks |-> Append(chunks, copyFromWasm(r.out, r.rc)),
              res |-> "hung", calls |-> calls + 1]
        ELSE CompressStream_flush_loop(alg, r.ctx, bufferSize, FALSE,
                                       Append(chunks, copyFromWasm(r.out, r.rc)),
                                       calls + 1, seen \cup {r.ctx})
  IN  step(cu_stream_compress_finish(alg, c, bufferSize, fault))

\* flush(controller) of CompressStream; released = the finally block ran
CompressStream_flush(alg, w, cx, c, bufferSize, fault) ==
  LET result(r) ==
        [ctx |-> r.ctx, chunks |-> r.chunks, res |-> r.res,
         calls |-> r.calls, released |-> r.res # "hung",
         err |-> IF r.res = "err" THEN "COMPRESSION_FAILED" ELSE "none"]
  IN  IF ~w \/ cx = 0
      THEN [ctx |-> c, chunks |-> <<>>, res |-> "done", calls |-> 0,
            released |-> FALSE, err |-> "none"]
      ELSE result(CompressStream_flush_loop(alg, c, bufferSize, fault,
                                            <<>>, 0, {}))

\* one callback of a compression session on codec context c:
\* op = [kind |-> "write", chunk] runs transform, [kind |-> "close"] flush
SessionApply(a, bs, c, out, op) ==
  LET written(r) ==
        [ctx |-> r.ctx, emitted |-> out \o r.chunks,
         phase |-> IF r.err = "none" THEN "open" ELSE "errored"]
      flushed(r) ==
        [ctx |-> r.ctx, emitted |-> out \o r.chunks,
         phase |-> CASE r.res = "done" -> "closed" [] r.res = "err" -> "errored"
                     [] OTHER -> "hung"]
  IN  IF op.kind = "write"
      THEN written(CompressStream_transform(a, TRUE, 1, c, op.chunk, bs, TRUE, FALSE))
      ELSE flushed(CompressStream_flush(a, TRUE, 1, c, bs, FALSE))

\* a session run alone on a context of its own
RECURSIVE SoloRun(_, _, _)
SoloRun(a, bs, ops) ==
  LET next(prev) == SessionApply(a, bs, prev.ctx, prev.emitted, ops[Len(ops)])
  IN  IF ops = <<>> THEN [ctx |-> NewContext, emitted |-> <<>>, phase |-> "open"]
      ELSE next(SoloRun(a, bs, Take(ops, Len(ops) - 1)))

\* flush(controller) of DecompressStream: only a negative result throws
DecompressStream_flush(alg, w, cx, c, bufferSize, fault) ==
  IF ~w \/ cx = 0
  THEN [ctx |-> c, chunks |-> <<>>, res |-> "done", calls |-> 0,
        released |-> FALSE, err |-> "none"]
  ELSE LET finished == cu_stream_decompress_finish(c)
       IN  [ctx |-> c, chunks |-> <<>>,
            res |-> IF finished < 0 THEN "err" ELSE "done", calls |-> 1,
            released |-> TRUE,
            err |-> IF finished < 0 THEN "DECOMPRESSION_FAILED" ELSE "none"]


\* ------------------------------------------------------------------------
\* Compression levels (core/utils.ts).  A JavaScript value is a record
\*   [t, n, d, s] : t = "undefined", "number" (the rational n/d), "string"
\*                  (s), "function", "NaN" or "null"
\* ------------------------------------------------------------------------
JsValue(t, n, d, str) == [t |-> t, n |-> n, d |-> d, s |-> str]

Undefined == JsValue("undefined", 0, 1, "")

Num(n, d) == JsValue("number", n, d, "")

Str(str) == JsValue("string", 0, 1, str)

\* what a level option can hold at run time: nothing, integers inside and
\* outside 1..10, the non-integer 5/2, preset names, other strings, null
LevelInputs ==
  {Undefined, JsValue("null", 0, 1, ""), Num(5, 2)}
    \cup {Num(n, 1) : n \in -1..11}
    \cup {Str(str) : str \in {"fast", "balanced", "best", "invalid", "toString"}}

OneShotAlgorithms == {"zstd", "brotli", "zlib", "bz2", "lz4", "xz"}

ALGORITHM_MAX_LEVELS ==
  [a \in OneShotAlgorithms |->
     CASE a = "zstd" -> 22 [] a = "brotli" -> 11 [] a = "zlib" -> 9
       [] a = "bz2" -> 9 [] a = "lz4" -> 12 [] OTHER -> 9]

ALGORITHM_MIN_LEVELS ==
  [a \in OneShotAlgorithms |->
     CASE a = "zstd" -> 1 [] a = "brotli" -> 0 [] a = "zlib" -> 1
       [] a = "bz2" -> 1 [] a = "lz4" -> 1 [] OTHER -> 0]

DEFAULT_LEVEL == 5

\* names every object literal inherits from Object.prototype (some of them)
ObjectPrototypeKeys == {"constructor", "toString", "valueOf", "hasOwnProperty"}

\* PRESET_TO_LEVEL[level]: a property read on an object literal, which
\* also finds the properties inherited from Object.prototype
PRESET_TO_LEVEL(str) ==
  CASE str = "fast" -> Num(1, 1)
    [] str = "balanced" -> Num(5, 1)
    [] str = "best" -> Num(10, 1)
    [] str \in ObjectPrototypeKeys -> JsValue("function", 0, 1, str)
    [] OTHER -> Undefined

Returned(v) == [threw |-> FALSE, err |-> "none", value |-> v]

Thrown(code) == [threw |-> TRUE, err |-> code, value |-> Undefined]

\* normalizeLevel() whose default is the lowest level
normalizeLevel_DefaultLowest(level, algorithm) ==
  IF level.t = "undefined" THEN Returned(Num(1, 1))
  ELSE IF level.t = "string"
  THEN IF PRESET_TO_LEVEL(level.s) = Undefined
       THEN Thrown("INVALID_LEVEL")
       ELSE Returned(PRESET_TO_LEVEL(level.s))
  ELSE IF level.t = "number"
  THEN IF level.d # 1 \/ level.n < 1 \/ level.n > 10
       THEN Thrown("INVALID_LEVEL")
       ELSE Returned(level)
  ELSE Thrown("INVALID_LEVEL")

normalizeLevel(level, algorithm) ==
  IF level.t = "undefined" THEN Returned(Num(DEFAULT_LEVEL, 1))
  ELSE IF level.t = "string"
  THEN IF PRESET_TO_LEVEL(level.s) = Undefined
       THEN Thrown("INVALID_LEVEL")
       ELSE Returned(PRESET_TO_LEVEL(level.s))
  ELSE IF level.t = "number"
  THEN IF level.d # 1 \/ level.n < 1 \/ level.n > 10
       THEN Thrown("INVALID_LEVEL")
       ELSE Returned(level)
  ELSE Thrown("INVALID_LEVEL")

\* an interpolation over ten steps instead of nine
mapLevelToAlgorithm_TenSteps(unifiedLevel, algorithm) ==
  LET min == ALGORITHM_MIN_LEVELS[algorithm]
      max == ALGORITHM_MAX_LEVELS[algorithm]
      n == unifiedLevel.n
      d == unifiedLevel.d
  IN  IF unifiedLevel.t # "number" THEN JsValue("NaN", 0, 1, "")
      ELSE Num((2 * (10 * d * min + (n - d) * (max - min)) + 10 * d)
                 \div (20 * d), 1)

\* an interpolation that runs from the maximum down to the minimum
mapLevelToAlgorithm_Descending(unifiedLevel, algorithm) ==
  LET min == ALGORITHM_MIN_LEVELS[algorithm]
      max == ALGORITHM_MAX_LEVELS[algorithm]
      n == unifiedLevel.n
      d == unifiedLevel.d
  IN  IF unifiedLevel.t # "number" THEN JsValue("NaN", 0, 1, "")
      ELSE Num((2 * (9 * d * max - (n - d) * (max - min)) + 9 * d)
                 \div (18 * d), 1)

\* Math.round(min + ((unifiedLevel - 1) / 9) * (max - min)); arithmetic on a
\* value that is not a number gives NaN
mapLevelToAlgorithm(unifiedLevel, algorithm) ==
  LET min == ALGORITHM_MIN_LEVELS[algorithm]
      max == ALGORITHM_MAX_LEVELS[algorithm]
      n == unifiedLevel.n
      d == unifiedLevel.d
  IN  IF unifiedLevel.t # "number" THEN JsValue("NaN", 0, 1, "")
      ELSE Num((2 * (9 * d * min + (n - d) * (max - min)) + 9 * d)
                 \div (18 * d), 1)

getNativeLevel(level, algorithm) ==
  IF normalizeLevel(level, algorithm).threw
  THEN normalizeLevel(level, algorithm)
  ELSE Returned(mapLevelToAlgorithm(normalizeLevel(level, algorithm).value,
                                    algorithm))

\* a JavaScript value passed as a WebAssembly i32 argument (NaN becomes 0)
ToInt32(v) == IF v.t = "number" THEN v.n ELSE 0

\* ------------------------------------------------------------------------
\* One-shot operations at the level of sizes.  The buffer logic of the
\* adapters depends only on how long a payload is, how many bytes it decodes
\* to and what the library call reports, so a payload is described by
\*   [len, size, kind, known] : len   encoded length in bytes
\*                              size  number of bytes it decodes to (for a
\*                                    truncated payload: before the cut)
\*                              kind  "valid", "truncated" or "corrupt"
\*                              known the frame header carries `size`
\* The data being compressed is a run of one byte value, the most
\* compressible input of its length.
\* ------------------------------------------------------------------------
Payload(len, size, kind, known) ==
  [len |-> len, size |-> size, kind |-> kind, known |-> known]

\* lengths of the byte sequences B that are compressed
RunSizes == {0, 1, 2000, 600000, 1048576, 3000000}

\* how many input bytes of a long run the library packs into one output
\* byte, and the fixed bytes of an encoded stream
RunRatio ==
  [a \in OneShotAlgorithms |->
     CASE a = "zlib" -> 1032 [] a = "lz4" -> 255 [] a = "xz" -> 6000
       [] OTHER -> 10000]

FrameOverhead ==
  [a \in OneShotAlgorithms |->
     CASE a = "zlib" -> 11 [] a = "lz4" -> 1 [] a = "xz" -> 60
       [] a = "bz2" -> 40 [] a = "brotli" -> 4 [] OTHER -> 13]

CompressedLen(a, n) == FrameOverhead[a] + (n + RunRatio[a] - 1) \div RunRatio[a]

\* the native levels each library accepts
LibraryAcceptsLevel(a, native) ==
  CASE a = "zstd"   -> native \in -131072..22
    [] a = "brotli" -> native \in 0..11
    [] a = "zlib"   -> native \in -1..9
    [] a = "bz2"    -> native \in 1..9
    [] a = "lz4"    -> TRUE
    [] OTHER        -> native \in 0..9

\* cu_compress of each adapter: the library's one-shot encoder with a bound
\* buffer; the LZ4 adapter prepends the 4-byte original size; only the zstd
\* and LZ4 payloads carry the decoded size
OneShot_cu_compress(a, n, native) ==
  IF ~LibraryAcceptsLevel(a, native) THEN [ok |-> FALSE, payload |-> Payload(0, 0, "corrupt", FALSE)]
  ELSE [ok |-> TRUE,
        payload |-> Payload(CompressedLen(a, n) + (IF a = "lz4" THEN 4 ELSE 0),
                            n, "valid", a \in {"zstd", "lz4"})]

\* compress(data, options) of compress.ts:
\*   [err, payload, validated (getNativeLevel ran), native (level given to
\*    the adapter)]
\* The zstd module returns compressEmpty() for empty input before it looks
\* at the level; the other modules follow xz/compress.ts.
compress_LevelFirst(a, n, level) ==
  IF getNativeLevel(level, a).threw
  THEN [err |-> getNativeLevel(level, a).err, payload |-> Payload(0, 0, "corrupt", FALSE),
        validated |-> TRUE, native |-> 0, adapterCalled |-> FALSE]
  ELSE [err |-> IF OneShot_cu_compress(a, n, ToInt32(getNativeLevel(level, a).value)).ok
                THEN "none" ELSE "COMPRESSION_FAILED",
        payload |-> OneShot_cu_compress(a, n, ToInt32(getNativeLevel(level, a).value)).payload,
        validated |-> TRUE,
        native |-> ToInt32(getNativeLevel(level, a).value),
        adapterCalled |-> TRUE]

compress(a, n, level) ==
  IF a = "zstd" /\ n = 0
  THEN [err |-> IF OneShot_cu_compress(a, 0, 3).ok THEN "none" ELSE "COMPRESSION_FAILED",
        payload |-> OneShot_cu_compress(a, 0, 3).payload,
        validated |-> FALSE, native |-> 3, adapterCalled |-> TRUE]
  ELSE compress_LevelFirst(a, n, level)

\* new CompressStream(options): the constructor resolves the level
CompressStream_constructor(a, level) ==
  [err |-> getNativeLevel(level, a).err,
   payload |-> Payload(0, 0, "corrupt", FALSE),
   validated |-> TRUE,
   native |-> IF getNativeLevel(level, a).threw THEN 0
              ELSE ToInt32(getNativeLevel(level, a).value),
   adapterCalled |-> FALSE]

\* ---- one-shot decoders of the libraries ---------------------------------
\* uncompress(): Z_BUF_ERROR when the output does not fit; a truncated
\* stream is reported as Z_BUF_ERROR too (the case that keeps the adapter's
\* loop running longest)
uncompress(p, destLen) ==
  CASE p.kind = "corrupt"   -> "Z_DATA_ERROR"
    [] p.size > destLen     -> "Z_BUF_ERROR"
    [] p.kind = "truncated" -> "Z_BUF_ERROR"
    [] OTHER                -> "Z_OK"

\* BrotliDecoderDecompress(): the one-shot call reports only success or
\* error; a full output buffer is an error
BrotliDecoderDecompress(p, decoded_size) ==
  IF p.kind = "valid" /\ p.size <= decoded_size
  THEN "BROTLI_DECODER_RESULT_SUCCESS"
  ELSE "BROTLI_DECODER_RESULT_ERROR"

BZ2_bzBuffToBuffDecompress(p, destLen) ==
  CASE p.kind = "corrupt"   -> "BZ_DATA_ERROR"
    [] p.size > destLen     -> "BZ_OUTBUFF_FULL"
    [] p.kind = "truncated" -> "BZ_UNEXPECTED_EOF"
    [] OTHER                -> "BZ_OK"

\* ZSTD_getFrameContentSize(): -1 unknown, -2 error
ZSTD_getFrameContentSize(p) ==
  IF p.kind = "corrupt" THEN -2 ELSE IF p.known THEN p.size ELSE -1

ZSTD_decompress(p, dstCapacity) ==
  IF p.kind = "valid" /\ p.size <= dstCapacity THEN "ok" ELSE "error"

\* LZ4_decompress_safe() on the block after the adapter's size header
OneShot_LZ4_decompress_safe(p, dstCapacity) ==
  IF p.kind = "valid" /\ p.size <= dstCapacity THEN "ok" ELSE "error"

\* lzma_code(&strm, LZMA_FINISH): writes what fits into the space left,
\* reports LZMA_OK while the stream has not ended, and LZMA_BUF_ERROR on the
\* second call in a row that makes no progress.  `eager`: the call that
\* fills the buffer with the last byte also sees the end of the stream.
lzma_code(p, st, eager) ==
  LET avail_out == st.alloc_size - st.produced
      k == Min(p.size - st.produced, avail_out)
      progress == k > 0 \/ st.calls = 0
      total == st.produced + k
  IN  [st EXCEPT
         !.produced = total,
         !.calls = st.calls + 1,
         !.idle = ~progress,
         !.result =
           CASE p.kind = "corrupt" -> "LZMA_DATA_ERROR"
             [] total < p.size -> "LZMA_OK"
             [] p.kind = "valid" ->
                  IF total = st.alloc_size /\ k > 0 /\ ~eager
                  THEN "LZMA_OK" ELSE "LZMA_STREAM_END"
             [] OTHER ->
                  IF ~progress /\ st.idle THEN "LZMA_BUF_ERROR" ELSE "LZMA_OK"]

\* ---- cu_decompress of the adapters --------------------------------------
\* Position inside cu_decompress:
\*   [alloc_size, start_size, retries, result, produced, idle, calls, ret]
\*   calls : invocations of the library's decoder so far
\*   ret   : "pending" inside the loop, then "ptr" or "null"
MAX_RETRIES == 10

MIN_ALLOC == 1024

ALLOC_FACTOR == 4

InitialAlloc(input_len) ==
  IF input_len * ALLOC_FACTOR < MIN_ALLOC THEN MIN_ALLOC
  ELSE input_len * ALLOC_FACTOR

AdapterIdle ==
  [alloc_size |-> 0, start_size |-> 0, retries |-> 0, result |-> "none",
   produced |-> 0, idle |-> FALSE, calls |-> 0, ret |-> "pending"]

\* the result the adapter's loop treats as "output buffer too small"
TooSmall(a) ==
  CASE a = "zlib"   -> "Z_BUF_ERROR"
    [] a = "brotli" -> "BROTLI_DECODER_RESULT_NEEDS_MORE_OUTPUT"
    [] a = "bz2"    -> "BZ_OUTBUFF_FULL"
    [] OTHER        -> "none"

Success(a) ==
  CASE a = "zlib"   -> "Z_OK"
    [] a = "brotli" -> "BROTLI_DECODER_RESULT_SUCCESS"
    [] a = "bz2"    -> "BZ_OK"
    [] OTHER        -> "ok"

BufferDecode(a, p, cap) ==
  CASE a = "zlib"   -> uncompress(p, cap)
    [] a = "brotli" -> BrotliDecoderDecompress(p, cap)
    [] OTHER        -> BZ2_bzBuffToBuffDecompress(p, cap)

\* a loop that allows one more round: `retries <= 10`
AfterCall_OneMoreRetry(a, result, retries) ==
  IF result = TooSmall(a) /\ retries <= MAX_RETRIES THEN "pending"
  ELSE IF result = Success(a) THEN "ptr" ELSE "null"

\* where the code stands after a library call of the zlib, brotli and bz2
\* adapters: `while (result == <too small> && retries < 10)`, then
\* `if (result != <ok>) return nullptr`

AfterCall(a, result, retries) ==
  IF result = TooSmall(a) /\ retries < MAX_RETRIES THEN "pending"
  ELSE IF result = Success(a) THEN "ptr" ELSE "null"

\* cu_decompress up to and including its first library call
cu_decompress_begin(a, p) ==
  CASE a \in {"zlib", "brotli", "bz2"} ->
         [AdapterIdle EXCEPT
            !.alloc_size = InitialAlloc(p.len),
            !.start_size = InitialAlloc(p.len),
            !.result = BufferDecode(a, p, InitialAlloc(p.len)),
            !.calls = 1,
            !.ret = AfterCall(a, BufferDecode(a, p, InitialAlloc(p.len)), 0)]
    [] a = "zstd" ->
         IF ZSTD_getFrameContentSize(p) = -2
         THEN [AdapterIdle EXCEPT !.ret = "null"]
         ELSE [AdapterIdle EXCEPT
                 !.alloc_size = IF ZSTD_getFrameContentSize(p) = -1
                                THEN InitialAlloc(p.len) ELSE p.size,
                 !.start_size = IF ZSTD_getFrameContentSize(p) = -1
                                THEN InitialAlloc(p.len) ELSE p.size,
                 !.result = ZSTD_decompress(
                              p, IF ZSTD_getFrameContentSize(p) = -1
                                 THEN InitialAlloc(p.len) ELSE p.size),
                 !.calls = 1,
                 !.ret = IF ZSTD_decompress(
                              p, IF ZSTD_getFrameContentSize(p) = -1
                                 THEN InitialAlloc(p.len) ELSE p.size) = "ok"
                         THEN "ptr" ELSE "null"]
    [] a = "lz4" ->
         IF p.len < 4 THEN [AdapterIdle EXCEPT !.ret = "null"]
         ELSE [AdapterIdle EXCEPT
                 !.alloc_size = p.size,
                 !.start_size = p.size,
                 !.result = OneShot_LZ4_decompress_safe(p, p.size),
                 !.calls = 1,
                 !.ret = IF OneShot_LZ4_decompress_safe(p, p.size) = "ok"
                         THEN "ptr" ELSE "null"]
    [] OTHER ->
         [AdapterIdle EXCEPT
            !.alloc_size = InitialAlloc(p.len),
            !.start_size = InitialAlloc(p.len)]

\* one more round of the retry loop of the zlib, brotli and bz2 adapters
cu_decompress_retry(a, p, st) ==
  [st EXCEPT
     !.alloc_size = st.alloc_size * 2,
     !.result = BufferDecode(a, p, st.alloc_size * 2),
     !.calls = st.calls + 1,
     !.retries = st.retries + 1,
     !.ret = AfterCall(a, BufferDecode(a, p, st.alloc_size * 2),
                       st.retries + 1)]

\* one round of the `while (true)` loop of the xz adapter; c is the position
\* after its lzma_code call
xz_after_code(c) ==
  IF c.result = "LZMA_STREAM_END" THEN [c EXCEPT !.ret = "ptr"]
  ELSE IF c.result = "LZMA_OK" /\ c.alloc_size - c.produced = 0
  THEN IF c.retries >= MAX_RETRIES THEN [c EXCEPT !.ret = "null"]
       ELSE [c EXCEPT !.alloc_size = c.alloc_size * 2,
                      !.retries = c.retries + 1]
  ELSE IF c.result # "LZMA_OK" THEN [c EXCEPT !.ret = "null"]
  ELSE c

xz_cu_decompress_round(p, st, eager) == xz_after_code(lzma_code(p, st, eager))

\* decompress() that reads the length and copies without looking at the
\* pointer it got back
decompress_result_NoNullCheck(p, st) ==
  [status |-> "ok", err |-> "none", size |-> IF st.ret = "ptr" THEN p.size ELSE 0]

\* decompress(data) of compress.ts around the adapter's return value
decompress_result(p, st) ==
  IF st.ret = "ptr"
  THEN [status |-> "ok", err |-> "none", size |-> p.size]
  ELSE [status |-> "error", err |-> "DECOMPRESSION_FAILED", size |-> 0]

\* ------------------------------------------------------------------------
\* The C API (bindings/c).  The outcome of the C++ layer is
\*   [threw, std (a std::exception), what (its message), size (of the vector
\*    returned)]
\* ------------------------------------------------------------------------
\* Compress() of the C++ layer; codecFails: the algorithm's own Compress
\* throws std::runtime_error
compress_utils_Compress(size, algorithm, level, codecFails) ==
  IF level < 1 \/ level > 10
  THEN [threw |-> TRUE, std |-> TRUE, size |-> 0,
        what |-> "Compression level must be between 1 and 10"]
  ELSE IF algorithm \notin {"ZLIB", "ZSTD"}
  THEN [threw |-> TRUE, std |-> TRUE, size |-> 0,
        what |-> "Unsupported compression algorithm"]
  ELSE IF codecFails
  THEN [threw |-> TRUE, std |-> TRUE, size |-> 0, what |-> "Compression failed"]
  ELSE [threw |-> FALSE, std |-> FALSE, size |-> size + 8, what |-> ""]

\* Decompress() of the C++ layer; size is what the payload decodes to
compress_utils_Decompress(size, algorithm, codecFails) ==
  IF algorithm \notin {"ZLIB", "ZSTD"}
  THEN [threw |-> TRUE, std |-> TRUE, size |-> 0,
        what |-> "Unsupported compression algorithm"]
  ELSE IF codecFails
  THEN [threw |-> TRUE, std |-> TRUE, size |-> 0, what |-> "Decompression failed"]
  ELSE [threw |-> FALSE, std |-> FALSE, size |-> size, what |-> ""]

\* one error string shared by all threads
SetLastError_Global(g, t, error) == [u \in DOMAIN g |-> error]

\* SetLastError / ClearLastError on thread t: g_last_error is thread_local
SetLastError(g, t, error) == [g EXCEPT ![t] = error]

\* a wrapper whose catch blocks return -1 without recording the message
compress_data_NoMessage(r, mallocOK, unknown) ==
  IF r.threw THEN [ret |-> -1, error |-> ""]
  ELSE IF ~mallocOK THEN [ret |-> -1, error |-> "Memory allocation failed"]
  ELSE [ret |-> r.size, error |-> ""]

\* compress_data / decompress_data after ClearLastError(): r is the outcome
\* of the C++ call, unknown the message of the catch (...) block;
\* the result is the value returned and g_last_error of the calling thread
compress_data(r, mallocOK, unknown) ==
  IF r.threw /\ r.std THEN [ret |-> -1, error |-> r.what]
  ELSE IF r.threw THEN [ret |-> -1, error |-> unknown]
  ELSE IF ~mallocOK THEN [ret |-> -1, error |-> "Memory allocation failed"]
  ELSE [ret |-> r.size, error |-> ""]

\* ------------------------------------------------------------------------
\* LZ4 streaming compressor at the level of sizes.  A write is described by
\* its length and by whether the bytes compress ("run": one repeated byte,
\* "random": no matches); an emitted block by the two header fields and by
\* the sizes they stand for.
\* ------------------------------------------------------------------------
\* LZ4_compress_HC_continue(): the compressed size, 0 when it does not fit.
\* Without matches a block is one token, the extra length bytes and the
\* literals; a run is one literal, one match and the last five literals.
LZ4_compress_HC_continue(srcSize, kind, dstCapacity) ==
  LET size == IF srcSize < 13 \/ kind = "random"
              THEN 1 + (IF srcSize >= 15 THEN (srcSize - 15) \div 255 + 1 ELSE 0) + srcSize
              ELSE 9 + (IF srcSize >= 25 THEN (srcSize - 25) \div 255 + 1 ELSE 0)
  IN  IF size <= dstCapacity THEN size ELSE 0

\* the four prefix bytes as two little-endian 16-bit fields
lz4_block_prefix(input_len, compressed) ==
  [original |-> (input_len % 256) + 256 * ((input_len \div 256) % 256),
   compressed |-> (compressed % 256) + 256 * ((compressed \div 256) % 256)]

\* cu_stream_compress_write of the LZ4 adapter:
\*   rc, the context after the call, the block written to the output and
\*   whether the memcpy stayed inside the ring buffer
lz4_sized_cu_stream_compress_write(c, len, kind, output_cap) ==
  LET input_len == IF len > BLOCK_SIZE THEN BLOCK_SIZE ELSE len
      compressed == LZ4_compress_HC_continue(input_len, kind, output_cap - 4)
      inside == c.ring_pos + input_len <= RING_BUFFER_SIZE
  IN  IF c.finished THEN [rc |-> -1, ctx |-> c, block |-> <<>>, inside |-> TRUE]
      ELSE IF compressed <= 0
      THEN [rc |-> -1, ctx |-> c, block |-> <<>>, inside |-> inside]
      ELSE [rc |-> compressed + 4,
            ctx |-> [c EXCEPT !.ring_pos = (c.ring_pos + input_len) % RING_BUFFER_SIZE],
            block |-> <<[header |-> lz4_block_prefix(input_len, compressed),
                         encoded |-> input_len, size |-> compressed]>>,
            inside |-> inside]

\* cu_stream_compress_finish of the LZ4 adapter
lz4_sized_cu_stream_compress_finish(c, output_cap) ==
  IF output_cap >= 4
  THEN [rc |-> 4, ctx |-> [c EXCEPT !.finished = TRUE],
        block |-> <<[header |-> [original |-> 0, compressed |-> 0],
                     encoded |-> 0, size |-> 0]>>]
  ELSE [rc |-> 0, ctx |-> c, block |-> <<>>]

\* ------------------------------------------------------------------------
\* State
\* ------------------------------------------------------------------------
VARIABLES
  \* one streaming session and its caller
  alg,            \* algorithm of the session
  mode,           \* "compress" (CompressStream) or "decompress"
  bufferSize,     \* options.bufferSize
  original,       \* the byte sequence B the scenario is about
  source,         \* what the caller feeds: B, or the one-shot payload of B
  fed,            \* bytes of source passed to write() so far
  writes,         \* write() calls made
  state,          \* TransformStream: starting, writable, errored, closed, hung
  storedError,    \* the error an errored stream rejects with
  wasm,           \* closure variable `wasm` is set
  ctx,            \* closure variable `ctx`
  outputPtr,      \* closure variable `outputPtr`
  ctxMem,         \* codec context: none, live, freed
  outMem,         \* output buffer: none, live, freed
  cctx,           \* contents of the codec context
  emitted,        \* chunks enqueued on the readable side, in order
  lastOp,         \* the caller's last call: [op, res, fast]
  consumed,       \* input bytes the codec has consumed
  adapterFailed,  \* an adapter call has returned a negative value
  callsAfterFailure, \* adapter write/finish calls made after that
  ctxFrees,       \* cu_stream_*_destroy calls on the context
  outFrees,       \* free(outputPtr) calls
  usedAfterFree,  \* an adapter call was given a released context or buffer
  outBuf,         \* bytes now in the output buffer at outputPtr
  chunkRefs,      \* the Uint8Array objects enqueued, in order
  \* the module loader
  moduleCache,    \* algorithm -> instance (0 = no entry)
  initPromises,   \* algorithm -> in-flight promise (0 = no entry)
  promises,       \* promise id -> [alg, status, error, handled]
  requests,       \* getModule/preload calls: [alg, pc, via, p, result, err]
  factoryCalls,   \* algorithm -> number of factory() invocations
  cleared,        \* clearModuleCache() has been called
  startedBeforeClear, \* initializations begun before the last such call
  \* one caller of the one-shot API
  osAlg,          \* algorithm of the module used
  osLevel,        \* options.level
  osSize,         \* length of the data B
  osPc,           \* start, compressed, constructed, supplied, loop, done, failed
  compressed,     \* outcome of compress() or of new CompressStream()
  normalized,     \* what normalizeLevel() did, if it was called
  payload,        \* the payload handed to decompress()
  adapter,        \* position inside cu_decompress
  outcome         \* outcome of decompress(): [status, err, size]

streamVars == <<alg, mode, bufferSize, original, source, fed, writes, state,
                storedError, wasm, ctx, outputPtr, ctxMem, outMem, cctx,
                emitted, lastOp, consumed, adapterFailed, callsAfterFailure,
                ctxFrees, outFrees, usedAfterFree, outBuf, chunkRefs>>

loaderVars == <<moduleCache, initPromises, promises, requests, factoryCalls,
                cleared, startedBeforeClear>>

oneShotVars == <<osAlg, osLevel, osSize, osPc, compressed, normalized,
                 payload, adapter, outcome>>

VARIABLES
  \* the LZ4 streaming compressor adapter, at the level of sizes
  lz4Stream       \* [ring_pos, finished, blocks, state]

VARIABLES
  \* two streaming sessions on one WebAssembly heap
  pair            \* [sessions, heap]

VARIABLES
  \* the C API used from two threads
  capi            \* [g_last_error, last]

vars == <<streamVars, loaderVars, oneShotVars, lz4Stream, pair, capi>>

\* no call made yet; g_last_error is thread_local, one string per thread
CApiIdle ==
  capi = [g_last_error |-> [t \in 1..2 |-> ""],
          last |-> [t \in 1..2 |-> [op |-> "none", ret |-> 0, failed |-> FALSE,
                                    what |-> "", size |-> 0]]]


\* no session constructed, nothing allocated
PairIdle ==
  pair = [sessions |-> [s \in 1..2 |->
                         [phase |-> "none", alg |-> "zstd", bufferSize |-> 8,
                          ctx |-> 0, outputPtr |-> 0, ops |-> <<>>,
                          emitted |-> <<>>]],
          heap |-> [p \in 1..4 |-> [used |-> FALSE, ctx |-> NewContext]]]

\* a context fresh from cu_stream_compress_create, nothing emitted
Lz4Idle ==
  lz4Stream = [ring_pos |-> 0, finished |-> FALSE, blocks |-> <<>>, state |-> "open"]


LoaderAlgorithms == {"zstd", "bz2"}

StreamIdle ==
  /\ alg = "zstd" /\ mode = "compress" /\ bufferSize = 8
  /\ original = <<>> /\ source = <<>> /\ fed = 0 /\ writes = 0
  /\ state = "starting" /\ storedError = "none"
  /\ wasm = FALSE /\ ctx = 0 /\ outputPtr = 0
  /\ ctxMem = "none" /\ outMem = "none" /\ cctx = NewContext
  /\ emitted = <<>> /\ lastOp = [op |-> "none", res |-> "none", fast |-> FALSE]
  /\ consumed = 0 /\ adapterFailed = FALSE /\ callsAfterFailure = 0
  /\ ctxFrees = 0 /\ outFrees = 0 /\ usedAfterFree = FALSE
  /\ outBuf = <<>> /\ chunkRefs = <<>>

LoaderIdle ==
  /\ moduleCache = [a \in LoaderAlgorithms |-> 0]
  /\ initPromises = [a \in LoaderAlgorithms |-> 0]
  /\ promises = <<>>
  /\ requests = <<>>
  /\ factoryCalls = [a \in LoaderAlgorithms |-> 0]
  /\ cleared = FALSE
  /\ startedBeforeClear = {}

NotCompressed ==
  [err |-> "none", payload |-> Payload(0, 0, "corrupt", FALSE),
   validated |-> FALSE, native |-> 0, adapterCalled |-> FALSE]

NotRun == [threw |-> FALSE, err |-> "not run", value |-> Undefined]

NoOutcome == [status |-> "none", err |-> "none", size |-> 0]

OneShotIdle ==
  /\ osAlg = "zstd" /\ osLevel = Undefined /\ osSize = 0 /\ osPc = "idle"
  /\ compressed = NotCompressed /\ normalized = NotRun
  /\ payload = Payload(0, 0, "corrupt", FALSE)
  /\ adapter = AdapterIdle /\ outcome = NoOutcome

\* ------------------------------------------------------------------------
\* The streaming session: new CompressStream(options) / new
\* DecompressStream(options) and the caller's writer.write(), writer.close()
\* and writer.abort().  TransformStream runs start() once, runs transform()
\* and flush() only while the stream is writable, errors the stream when a
\* callback throws, and rejects every call on an errored or closed stream
\* without running a callback.
\* ------------------------------------------------------------------------
StreamInit ==
  /\ alg \in Algorithms
  /\ mode \in {"compress", "decompress"}
  /\ bufferSize \in BufferSizes
  /\ original \in SeqsUpTo(Bytes, MaxLen)
  /\ source = IF mode = "compress" THEN original
              ELSE cu_compress(alg, original).data
  /\ fed = 0 /\ writes = 0
  /\ state = "starting" /\ storedError = "none"
  /\ wasm = FALSE /\ ctx = 0 /\ outputPtr = 0
  /\ ctxMem = "none" /\ outMem = "none" /\ cctx = NewContext
  /\ emitted = <<>> /\ lastOp = [op |-> "none", res |-> "none", fast |-> FALSE]
  /\ consumed = 0 /\ adapterFailed = FALSE /\ callsAfterFailure = 0
  /\ ctxFrees = 0 /\ outFrees = 0 /\ usedAfterFree = FALSE
  /\ outBuf = <<>> /\ chunkRefs = <<>>

Start ==
  /\ state = "starting"
  /\ \E modOK \in BOOLEAN, createOK \in BOOLEAN, mallocOK \in BOOLEAN :
       LET r == Stream_start(modOK, createOK, mallocOK,
                             "WASM_INIT_FAILED", "WASM_OOM")
       IN  /\ wasm' = r.wasm
           /\ ctx' = r.ctx
           /\ outputPtr' = r.outputPtr
           /\ ctxMem' = r.ctxMem
           /\ outMem' = r.outMem
           /\ ctxFrees' = ctxFrees + r.destroyed
           /\ state' = IF r.err = "none" THEN "writable" ELSE "errored"
           /\ storedError' = r.err
           /\ lastOp' = [op |-> "start",
                         res |-> IF r.err = "none" THEN "ok" ELSE r.err,
                         fast |-> FALSE]
  /\ UNCHANGED <<alg, mode, bufferSize, original, source, fed, writes, cctx,
                 emitted, consumed, adapterFailed, callsAfterFailure,
                 outFrees, usedAfterFree>>
  /\ UNCHANGED <<outBuf, chunkRefs>>
  /\ UNCHANGED <<loaderVars, oneShotVars, lz4Stream, pair, capi>>

Write ==
  /\ state = "writable"
  /\ writes < MaxWrites
  /\ \E n \in 0..(Len(source) - fed), inMallocOK \in BOOLEAN, fault \in BOOLEAN :
       LET chunk == SubSeq(source, fed + 1, fed + n)
           r == IF mode = "compress"
                THEN CompressStream_transform(alg, wasm, ctx, cctx, chunk,
                                              bufferSize, inMallocOK, fault)
                ELSE DecompressStream_transform(alg, wasm, ctx, cctx, chunk,
                                                bufferSize, inMallocOK, fault)
       IN  /\ cctx' = r.ctx
           /\ emitted' = enqueue(emitted, r.chunks)
           /\ outBuf' = memoryAfter(outBuf, r.chunks)
           /\ chunkRefs' = enqueue(chunkRefs,
                                   [i \in 1..Len(r.chunks) |-> new_Uint8Array(r.chunks[i])])
           /\ fed' = fed + n
           /\ consumed' = consumed + r.used
           /\ adapterFailed' = (adapterFailed \/ r.failed)
           /\ callsAfterFailure' =
                callsAfterFailure + (IF adapterFailed THEN r.calls ELSE 0)
           /\ usedAfterFree' =
                (usedAfterFree
                   \/ (r.calls > 0 /\ (ctxMem # "live" \/ outMem # "live")))
           /\ state' = IF r.err = "none" THEN "writable" ELSE "errored"
           /\ storedError' = r.err
           /\ lastOp' = [op |-> "write",
                         res |-> IF r.err = "none" THEN "ok" ELSE r.err,
                         fast |-> FALSE]
  /\ writes' = writes + 1
  /\ UNCHANGED <<alg, mode, bufferSize, original, source, wasm, ctx,
                 outputPtr, ctxMem, outMem, ctxFrees, outFrees>>
  /\ UNCHANGED <<loaderVars, oneShotVars, lz4Stream, pair, capi>>

Close ==
  /\ state = "writable"
  /\ \E fault \in BOOLEAN :
       LET r == IF mode = "compress"
                THEN CompressStream_flush(alg, wasm, ctx, cctx, bufferSize, fault)
                ELSE DecompressStream_flush(alg, wasm, ctx, cctx, bufferSize, fault)
       IN  /\ cctx' = r.ctx
           /\ emitted' = enqueue(emitted, r.chunks)
           /\ outBuf' = memoryAfter(outBuf, r.chunks)
           /\ chunkRefs' = enqueue(chunkRefs,
                                   [i \in 1..Len(r.chunks) |-> new_Uint8Array(r.chunks[i])])
           /\ adapterFailed' = (adapterFailed \/ r.res = "err")
           /\ callsAfterFailure' =
                callsAfterFailure + (IF adapterFailed THEN r.calls ELSE 0)
           /\ usedAfterFree' =
                (usedAfterFree
                   \/ (r.calls > 0 /\ (ctxMem # "live" \/ outMem # "live")))
           /\ outFrees' = outFrees + (IF r.released /\ outputPtr # 0 THEN 1 ELSE 0)
           /\ ctxFrees' = ctxFrees + (IF r.released /\ ctx # 0 THEN 1 ELSE 0)
           /\ outMem' = IF r.released /\ outputPtr # 0 THEN "freed" ELSE outMem
           /\ ctxMem' = IF r.released /\ ctx # 0 THEN "freed" ELSE ctxMem
           /\ state' = CASE r.res = "done" -> "closed"
                         [] r.res = "err"  -> "errored"
                         [] OTHER          -> "hung"
           /\ storedError' = r.err
           /\ lastOp' = [op |-> "close",
                         res |-> CASE r.res = "done" -> "ok"
                                   [] r.res = "err"  -> r.err
                                   [] OTHER          -> "pending",
                         fast |-> FALSE]
  /\ UNCHANGED <<alg, mode, bufferSize, original, source, fed, writes, wasm,
                 ctx, outputPtr, consumed>>
  /\ UNCHANGED <<loaderVars, oneShotVars, lz4Stream, pair, capi>>

\* writer.write() on an errored or closed stream
WriteRejected ==
  /\ state \in {"errored", "closed"}
  /\ lastOp' = [op |-> "write",
                res |-> IF state = "closed" THEN "TypeError" ELSE storedError,
                fast |-> TRUE]
  /\ UNCHANGED <<alg, mode, bufferSize, original, source, fed, writes, state,
                 storedError, wasm, ctx, outputPtr, ctxMem, outMem, cctx,
                 emitted, consumed, adapterFailed, callsAfterFailure,
                 ctxFrees, outFrees, usedAfterFree>>
  /\ UNCHANGED <<outBuf, chunkRefs>>
  /\ UNCHANGED <<loaderVars, oneShotVars, lz4Stream, pair, capi>>

\* writer.close() on an errored or closed stream
CloseRejected ==
  /\ state \in {"errored", "closed"}
  /\ lastOp' = [op |-> "close",
                res |-> IF state = "closed" THEN "TypeError" ELSE storedError,
                fast |-> TRUE]
  /\ UNCHANGED <<alg, mode, bufferSize, original, source, fed, writes, state,
                 storedError, wasm, ctx, outputPtr, ctxMem, outMem, cctx,
                 emitted, consumed, adapterFailed, callsAfterFailure,
                 ctxFrees, outFrees, usedAfterFree>>
  /\ UNCHANGED <<outBuf, chunkRefs>>
  /\ UNCHANGED <<loaderVars, oneShotVars, lz4Stream, pair, capi>>

\* writer.abort(): the caller abandons the session; the transformer has no
\* cancel callback, so no session code runs
Abort ==
  /\ state = "writable"
  /\ state' = "errored"
  /\ storedError' = "ABORTED"
  /\ lastOp' = [op |-> "abort", res |-> "ok", fast |-> FALSE]
  /\ UNCHANGED <<alg, mode, bufferSize, original, source, fed, writes, wasm,
                 ctx, outputPtr, ctxMem, outMem, cctx, emitted, consumed,
                 adapterFailed, callsAfterFailure, ctxFrees, outFrees,
                 usedAfterFree>>
  /\ UNCHANGED <<outBuf, chunkRefs>>
  /\ UNCHANGED <<loaderVars, oneShotVars, lz4Stream, pair, capi>>

Init == StreamInit /\ LoaderIdle /\ OneShotIdle /\ Lz4Idle /\ PairIdle /\ CApiIdle

Next ==
  \/ Start
  \/ Write
  \/ Close
  \/ WriteRejected
  \/ CloseRejected
  \/ Abort

Spec == Init /\ [][Next]_vars

\* ------------------------------------------------------------------------
\* Claims about the streaming session
\* ------------------------------------------------------------------------

\* C1: when a compression session fed all of B (in any chunks, with any
\* output buffer capacity) has finished, the concatenation of the emitted
\* chunks one-shot-decompresses to exactly B.
C1_StreamCompressRoundTrip ==
  (mode = "compress" /\ state = "closed" /\ fed = Len(source))
    => cu_decompress(alg, Flatten(emitted)) = [ok |-> TRUE, data |-> original]

\* C2: when a decompression session fed the whole one-shot payload of B (in
\* any chunks) has finished, the concatenation of the emitted chunks is B.
C2_StreamDecompressRoundTrip ==
  (mode = "decompress" /\ state = "closed" /\ fed = Len(source))
    => Flatten(emitted) = original

\* C3: a write() that returned successfully has had the codec consume the
\* whole chunk: no input byte passed to a successful write is dropped.
C3_WriteConsumesWholeChunk ==
  (state = "writable" /\ lastOp.op = "write" /\ lastOp.res = "ok")
    => consumed = fed

\* C4: finish() of a decompression session completes successfully only if
\* the decoder signalled end-of-stream; otherwise it fails (UnexpectedEof).
C4_TruncationSurfaced ==
  (mode = "decompress" /\ lastOp.op = "close" /\ lastOp.res = "ok")
    => cu_stream_decompress_finish(cctx) = 1

\* C5: once finish() has returned done, every later write() or finish()
\* fails with StreamAlreadyFinished.
C5_FinishedIsTerminal ==
  (state = "closed" /\ lastOp.fast)
    => lastOp.res = "STREAM_ALREADY_FINISHED"

\* C7: finish() on a compression session terminates: the adapter's finish
\* operation returns 0 after finitely many calls.
C7_FinishTerminates == state # "hung"

\* C8: on every exit path (finished, errored or abandoned session) the codec
\* context and the output buffer have been released.
C8_ReleasedOnEveryExit ==
  state \in {"closed", "errored"} => (ctxMem # "live" /\ outMem # "live")


\* C6: after an adapter call has reported failure the session is in the
\* terminal error state: every later write/finish call is rejected and no
\* adapter write or finish call is made on the context any more.
C6_ErrorIsTerminal ==
  adapterFailed =>
    /\ state = "errored"
    /\ callsAfterFailure = 0
    /\ lastOp.op \in {"write", "close"}
    /\ lastOp.res \notin {"ok", "pending", "none"}

\* a finish attempted after a failed adapter call was rejected at once
C6_Witness == adapterFailed /\ lastOp.op = "close" /\ lastOp.fast

\* C9: the codec context and the output buffer are released at most once
\* each and no adapter call is given a released context or buffer.
C9_ReleasedAtMostOnce ==
  /\ ctxFrees <= 1
  /\ outFrees <= 1
  /\ ~usedAfterFree

\* a failed finish released both, and a later call was made on the session
C9_Witness ==
  /\ adapterFailed /\ ctxFrees = 1 /\ outFrees = 1
  /\ lastOp.op = "write" /\ lastOp.fast


\* ------------------------------------------------------------------------
\* The module loader (core/loader.ts) and the per-algorithm getXxxModule /
\* preload wrappers.  JavaScript runs each piece of code between two awaits
\* without interruption, so every action below is one such piece.
\*   requests[i].pc : loading   - inside `await loadFactory()`
\*                    initiator - inside `await initPromise` of getModule
\*                    waiter    - getModule returned the in-flight promise
\*                    resolved / rejected - the caller has its answer
\*   requests[i].via: how getModule answered: cache, init, attach
\* A promise id is also the id of the instance its factory call creates.
\* ------------------------------------------------------------------------
\* getModule() without the in-flight check
getModule_entry_NoInFlightCheck(cached, initPromise) ==
  IF cached # 0 THEN "cache" ELSE "init"

\* the synchronous head of getModule(): the decision it takes
getModule_entry(cached, initPromise) ==
  IF cached # 0 THEN "cache"
  ELSE IF initPromise # 0 THEN "attach"
  ELSE "init"

\* instantiateModule() that lets the factory's own error through instead of
\* wrapping it
instantiateModule_Rethrow(ok) ==
  IF ok THEN [status |-> "fulfilled", error |-> "none"]
  ELSE [status |-> "rejected", error |-> "Error"]

\* instantiateModule(): how the promise it returns settles; every failure of
\* the factory or of wrapEmscriptenModule is thrown as wasmInitFailed
instantiateModule(ok) ==
  IF ok THEN [status |-> "fulfilled", error |-> "none"]
  ELSE [status |-> "rejected", error |-> "WASM_INIT_FAILED"]

\* the tail of getModule() that deletes the in-flight entry only after a
\* successful initialization
getModule_settle_KeepOnFailure(ok, a, p, cache, inflight) ==
  [moduleCache |-> IF ok THEN [cache EXCEPT ![a] = p] ELSE cache,
   initPromises |-> IF ok THEN [inflight EXCEPT ![a] = 0] ELSE inflight]

\* the tail of getModule() that never stores the module in the cache
getModule_settle_NoCacheSet(ok, a, p, cache, inflight) ==
  [moduleCache |-> cache,
   initPromises |-> [inflight EXCEPT ![a] = 0]]

\* the tail of getModule() after `await initPromise`: moduleCache.set on
\* success, initPromises.delete in the finally block
getModule_settle(ok, a, p, cache, inflight) ==
  [moduleCache |-> IF ok THEN [cache EXCEPT ![a] = p] ELSE cache,
   initPromises |-> [inflight EXCEPT ![a] = 0]]

\* a caller invokes getXxxModule() or preload(); preload() awaits the same
\* getModule() call and drops its result
Request ==
  /\ Len(requests) < MaxRequests
  /\ \E a \in LoaderAlgorithms :
       requests' = Append(requests,
                          [alg |-> a, pc |-> "loading", via |-> "none",
                           p |-> 0, result |-> 0, err |-> "none"])
  /\ UNCHANGED <<moduleCache, initPromises, promises, factoryCalls, cleared, startedBeforeClear>>
  /\ UNCHANGED <<streamVars, oneShotVars, lz4Stream, pair, capi>>

\* loadFactory() has resolved: getModule(algorithm, factory) runs up to its
\* first await or return
GetModule ==
  /\ \E i \in DOMAIN requests :
       /\ requests[i].pc = "loading"
       /\ LET a == requests[i].alg
              d == getModule_entry(moduleCache[a], initPromises[a])
          IN  CASE d = "cache" ->
                     /\ requests' = [requests EXCEPT
                                       ![i].pc = "resolved",
                                       ![i].via = "cache",
                                       ![i].result = moduleCache[a]]
                     /\ UNCHANGED <<initPromises, promises, factoryCalls>>
                [] d = "attach" ->
                     /\ requests' = [requests EXCEPT
                                       ![i].pc = "waiter",
                                       ![i].via = "attach",
                                       ![i].p = initPromises[a]]
                     /\ UNCHANGED <<initPromises, promises, factoryCalls>>
                [] OTHER ->
                     /\ promises' = Append(promises,
                                           [alg |-> a, status |-> "pending",
                                            error |-> "none",
                                            handled |-> FALSE])
                     /\ factoryCalls' = [factoryCalls EXCEPT ![a] = @ + 1]
                     /\ initPromises' = [initPromises EXCEPT
                                           ![a] = Len(promises) + 1]
                     /\ requests' = [requests EXCEPT
                                       ![i].pc = "initiator",
                                       ![i].via = "init",
                                       ![i].p = Len(promises) + 1]
  /\ UNCHANGED <<moduleCache, cleared, startedBeforeClear>>
  /\ UNCHANGED <<streamVars, oneShotVars, lz4Stream, pair, capi>>

\* instantiateModule(): the factory's promise settles
FactorySettles ==
  /\ \E p \in DOMAIN promises, ok \in BOOLEAN :
       /\ promises[p].status = "pending"
       /\ promises' = [promises EXCEPT
                         ![p].status = instantiateModule(ok).status,
                         ![p].error = instantiateModule(ok).error]
  /\ UNCHANGED <<moduleCache, initPromises, requests, factoryCalls, cleared, startedBeforeClear>>
  /\ UNCHANGED <<streamVars, oneShotVars, lz4Stream, pair, capi>>

\* the call that started the initialization resumes after
\* `await initPromise`: cache the module on success, always delete the
\* in-flight entry
InitiatorResumes ==
  /\ \E i \in DOMAIN requests :
       /\ requests[i].pc = "initiator"
       /\ promises[requests[i].p].status # "pending"
       /\ LET a == requests[i].alg
              p == requests[i].p
              ok == promises[p].status = "fulfilled"
          IN  /\ moduleCache' =
                   getModule_settle(ok, a, p, moduleCache, initPromises).moduleCache
              /\ initPromises' =
                   getModule_settle(ok, a, p, moduleCache, initPromises).initPromises
              /\ promises' = [promises EXCEPT ![p].handled = TRUE]
              /\ requests' = [requests EXCEPT
                                ![i].pc = IF ok THEN "resolved" ELSE "rejected",
                                ![i].result = IF ok THEN p ELSE 0,
                                ![i].err = promises[p].error]
  /\ UNCHANGED <<factoryCalls, cleared, startedBeforeClear>>
  /\ UNCHANGED <<streamVars, oneShotVars, lz4Stream, pair, capi>>

\* a joined call that may resume before the call that started the
\* initialization has run its continuation
WaiterResumes_BeforeInitiator ==
  /\ \E i \in DOMAIN requests :
       /\ requests[i].pc = "waiter"
       /\ promises[requests[i].p].status # "pending"
       /\ LET ok == promises[requests[i].p].status = "fulfilled"
          IN  requests' = [requests EXCEPT
                             ![i].pc = IF ok THEN "resolved" ELSE "rejected",
                             ![i].result = IF ok THEN requests[i].p ELSE 0,
                             ![i].err = promises[requests[i].p].error]
  /\ UNCHANGED <<moduleCache, initPromises, promises, factoryCalls, cleared, startedBeforeClear>>
  /\ UNCHANGED <<streamVars, oneShotVars, lz4Stream, pair, capi>>

\* a call that returned the in-flight promise gets its outcome; promise
\* reactions run in registration order, the initiator's first
WaiterResumes ==
  /\ \E i \in DOMAIN requests :
       /\ requests[i].pc = "waiter"
       /\ promises[requests[i].p].status # "pending"
       /\ promises[requests[i].p].handled
       /\ LET ok == promises[requests[i].p].status = "fulfilled"
          IN  requests' = [requests EXCEPT
                             ![i].pc = IF ok THEN "resolved" ELSE "rejected",
                             ![i].result = IF ok THEN requests[i].p ELSE 0,
                             ![i].err = promises[requests[i].p].error]
  /\ UNCHANGED <<moduleCache, initPromises, promises, factoryCalls, cleared, startedBeforeClear>>
  /\ UNCHANGED <<streamVars, oneShotVars, lz4Stream, pair, capi>>

clearModuleCache ==
  /\ \E a \in LoaderAlgorithms : moduleCache[a] # 0 \/ ~cleared
  /\ moduleCache' = [a \in LoaderAlgorithms |-> 0]
  /\ cleared' = TRUE
  /\ startedBeforeClear' = DOMAIN promises
  /\ UNCHANGED <<initPromises, promises, requests, factoryCalls>>
  /\ UNCHANGED <<streamVars, oneShotVars, lz4Stream, pair, capi>>

LoaderInit == StreamIdle /\ LoaderIdle /\ OneShotIdle /\ Lz4Idle /\ PairIdle /\ CApiIdle

LoaderNext ==
  \/ Request
  \/ GetModule
  \/ FactorySettles
  \/ InitiatorResumes
  \/ WaiterResumes
  \/ clearModuleCache

LoaderSpec == LoaderInit /\ [][LoaderNext]_vars

\* The continuations after `await initPromise` are promise reactions: once
\* the promise has settled the job queue runs each of them.
LoaderLiveSpec ==
  LoaderSpec /\ WF_vars(InitiatorResumes) /\ WF_vars(WaiterResumes)

\* ------------------------------------------------------------------------
\* Claims about the module loader
\* ------------------------------------------------------------------------
InFlight(a) ==
  {p \in DOMAIN promises : promises[p].alg = a /\ promises[p].status = "pending"}

InitFailed(a) ==
  \E p \in DOMAIN promises : promises[p].alg = a /\ promises[p].status = "rejected"

Answered(a) ==
  {i \in DOMAIN requests : requests[i].alg = a /\ requests[i].pc = "resolved"}

\* C10: concurrent first-use requests for one algorithm collapse onto one
\* initialization: at most one initialization is in flight per algorithm,
\* and (no initialization having failed, the cache not having been cleared)
\* the factory has been invoked at most once and every answered request got
\* the one instance that invocation created.
C10_SingleFlightInit ==
  \A a \in LoaderAlgorithms :
    /\ Cardinality(InFlight(a)) <= 1
    /\ (~InitFailed(a) /\ ~cleared) =>
          /\ factoryCalls[a] <= 1
          /\ \A i \in Answered(a) :
               /\ requests[i].result \in DOMAIN promises
               /\ promises[requests[i].result].alg = a
               /\ promises[requests[i].result].status = "fulfilled"
          /\ \A i, j \in Answered(a) : requests[i].result = requests[j].result

\* two requests for one algorithm, the second made while the first one's
\* initialization was in flight, have both been answered
C10_Witness ==
  \E a \in LoaderAlgorithms : \E i, j \in Answered(a) :
    /\ requests[i].via = "init"
    /\ requests[j].via = "attach"
    /\ ~InitFailed(a) /\ ~cleared

\* the request that started an initialization sees it fail in this step
InitiatorFails(i, a) ==
  /\ i \in DOMAIN requests
  /\ requests[i].alg = a
  /\ requests[i].pc = "initiator"
  /\ requests'[i].pc = "rejected"

\* C11: when the call that started an initialization sees it fail, it leaves
\* no entry for the algorithm in the module cache nor in the in-flight map,
\* so the next getModule call for it starts a fresh initialization (which can
\* succeed: the witness).
C11_FailedInitNotRetained ==
  [][\A a \in LoaderAlgorithms : \A i \in 1..MaxRequests :
       InitiatorFails(i, a) =>
         /\ moduleCache'[a] = 0
         /\ initPromises'[a] = 0
         /\ getModule_entry(moduleCache'[a], initPromises'[a]) = "init"]_vars

\* an initialization failed, a later call started a second one, it succeeded
\* and its module is the cached one
C11_Witness ==
  \E a \in LoaderAlgorithms : \E i, j \in DOMAIN requests :
    /\ requests[i].alg = a /\ requests[i].via = "init"
    /\ requests[i].pc = "rejected"
    /\ requests[j].alg = a /\ requests[j].via = "init"
    /\ requests[j].pc = "resolved"
    /\ requests[j].p > requests[i].p
    /\ moduleCache[a] = requests[j].result

\* request i is attached to an initialization that has failed
AttachedToFailed(i) ==
  /\ i \in DOMAIN requests
  /\ requests[i].p # 0
  /\ promises[requests[i].p].status = "rejected"

\* request i has been rejected with wasmInitFailed and carries no module
GotWasmInitFailed(i) ==
  /\ i \in DOMAIN requests
  /\ requests[i].pc = "rejected"
  /\ requests[i].err = "WASM_INIT_FAILED"
  /\ requests[i].result = 0

\* C12: every call attached to an initialization that fails (the call that
\* started it and every call that joined it) is eventually rejected with
\* WASM_INIT_FAILED and never receives a module from that attempt.
C12_FailurePropagates ==
  \A i \in 1..MaxRequests : AttachedToFailed(i) ~> GotWasmInitFailed(i)

\* the starter of a failed initialization and a call that joined it have
\* both been rejected with WASM_INIT_FAILED
C12_Witness ==
  \E i, j \in DOMAIN requests :
    /\ requests[i].via = "init" /\ requests[j].via = "attach"
    /\ requests[i].p = requests[j].p
    /\ AttachedToFailed(i) /\ GotWasmInitFailed(i)
    /\ AttachedToFailed(j) /\ GotWasmInitFailed(j)

\* the module instances created for algorithm a
Instances(a) ==
  {p \in DOMAIN promises : promises[p].alg = a /\ promises[p].status = "fulfilled"}

\* C13: as long as clearModuleCache has not been called, at most one module
\* instance exists per algorithm, a cache entry once set never changes, the
\* factory is not invoked again for an algorithm whose entry is set, and
\* every answered request holds that one instance.
C13_OneInstancePerAlgorithm ==
  [][~cleared' =>
       \A a \in LoaderAlgorithms :
         /\ Cardinality(Instances(a)') <= 1
         /\ moduleCache[a] # 0 =>
              /\ moduleCache'[a] = moduleCache[a]
              /\ factoryCalls'[a] = factoryCalls[a]
         /\ moduleCache'[a] # 0 => moduleCache'[a] \in Instances(a)'
         /\ \A i \in Answered(a)' : requests'[i].result \in Instances(a)']_vars

\* without a cache clear, one request initialized the module and a later one
\* was answered from the cache
C13_Witness ==
  \E a \in LoaderAlgorithms : \E i, j \in Answered(a) :
    /\ ~cleared
    /\ requests[i].via = "init"
    /\ requests[j].via = "cache"
    /\ requests[j].result = moduleCache[a]

\* ------------------------------------------------------------------------
\* One caller of the one-shot API: compress(B, {level}) or
\* new CompressStream({level}), then decompress() of the payload or of a
\* payload from elsewhere.  cu_decompress is followed through its loop one
\* library call at a time.
\* ------------------------------------------------------------------------

\* payloads that were not made by compress(): a frame whose header does not
\* carry the decoded size (streaming encoders write such frames), a payload
\* cut short, a damaged payload
ForeignPayloads(a, n) ==
  {Payload(CompressedLen(a, n) + (IF a = "lz4" THEN 4 ELSE 0), n, "valid",
           a = "lz4"),
   Payload(CompressedLen(a, n) + (IF a = "lz4" THEN 3 ELSE -1), n, "truncated",
           a \in {"zstd", "lz4"}),
   Payload(CompressedLen(a, n), n, "corrupt", FALSE)}

OneShotInit ==
  /\ osAlg \in OneShotAlgorithms
  /\ osLevel \in LevelInputs
  /\ osSize \in RunSizes
  /\ osPc = "start"
  /\ compressed = NotCompressed /\ normalized = NotRun
  /\ payload = Payload(0, 0, "corrupt", FALSE)
  /\ adapter = AdapterIdle /\ outcome = NoOutcome

\* compress(B, {level: osLevel})
Compress ==
  /\ osPc = "start"
  /\ compressed' = compress(osAlg, osSize, osLevel)
  /\ normalized' = IF compressed'.validated
                   THEN normalizeLevel(osLevel, osAlg) ELSE NotRun
  /\ payload' = compressed'.payload
  /\ osPc' = IF compressed'.err = "none" THEN "compressed" ELSE "failed"
  /\ UNCHANGED <<osAlg, osLevel, osSize, adapter, outcome>>
  /\ UNCHANGED <<streamVars, loaderVars, lz4Stream, pair, capi>>

\* new CompressStream({level: osLevel})
Construct ==
  /\ osPc = "start"
  /\ compressed' = CompressStream_constructor(osAlg, osLevel)
  /\ normalized' = normalizeLevel(osLevel, osAlg)
  /\ osPc' = IF compressed'.err = "none" THEN "constructed" ELSE "failed"
  /\ UNCHANGED <<osAlg, osLevel, osSize, payload, adapter, outcome>>
  /\ UNCHANGED <<streamVars, loaderVars, lz4Stream, pair, capi>>

\* the caller holds a payload that did not come from compress()
Supply ==
  /\ osPc = "start"
  /\ payload' \in ForeignPayloads(osAlg, osSize)
  /\ osPc' = "supplied"
  /\ UNCHANGED <<osAlg, osLevel, osSize, compressed, normalized, adapter,
                 outcome>>
  /\ UNCHANGED <<streamVars, loaderVars, lz4Stream, pair, capi>>

\* decompress(payload) up to the adapter's first library call
Decompress ==
  /\ osPc \in {"compressed", "supplied"}
  /\ IF payload.len = 0
     THEN /\ outcome' = [status |-> "error", err |-> "INVALID_INPUT", size |-> 0]
          /\ osPc' = "done"
          /\ UNCHANGED adapter
     ELSE /\ adapter' = cu_decompress_begin(osAlg, payload)
          /\ osPc' = "loop"
          /\ UNCHANGED outcome
  /\ UNCHANGED <<osAlg, osLevel, osSize, compressed, normalized, payload>>
  /\ UNCHANGED <<streamVars, loaderVars, lz4Stream, pair, capi>>

\* one more round of the adapter's loop
Retry ==
  /\ osPc = "loop"
  /\ adapter.ret = "pending"
  /\ \E eager \in BOOLEAN :
       adapter' = IF osAlg = "xz"
                  THEN xz_cu_decompress_round(payload, adapter, eager)
                  ELSE cu_decompress_retry(osAlg, payload, adapter)
  /\ UNCHANGED <<osAlg, osLevel, osSize, osPc, compressed, normalized,
                 payload, outcome>>
  /\ UNCHANGED <<streamVars, loaderVars, lz4Stream, pair, capi>>

\* cu_decompress returns and decompress() turns its result into the outcome
Return ==
  /\ osPc = "loop"
  /\ adapter.ret # "pending"
  /\ outcome' = decompress_result(payload, adapter)
  /\ osPc' = "done"
  /\ UNCHANGED <<osAlg, osLevel, osSize, compressed, normalized, payload,
                 adapter>>
  /\ UNCHANGED <<streamVars, loaderVars, lz4Stream, pair, capi>>

OneShotStart == StreamIdle /\ LoaderIdle /\ OneShotInit /\ Lz4Idle /\ PairIdle /\ CApiIdle

OneShotNext ==
  \/ Compress
  \/ Construct
  \/ Supply
  \/ Decompress
  \/ Retry
  \/ Return

OneShotSpec == OneShotStart /\ [][OneShotNext]_vars

\* cu_decompress is straight-line code: once entered it keeps running
OneShotLiveSpec == OneShotSpec /\ WF_vars(Retry) /\ WF_vars(Return)

\* ------------------------------------------------------------------------
\* Claims about the one-shot operations and the levels
\* ------------------------------------------------------------------------

\* a level the unified scale allows: none given, an integer in 1..10, or a
\* preset name
ValidLevel(level) ==
  \/ level.t = "undefined"
  \/ level.t = "number" /\ level.d = 1 /\ level.n \in 1..10
  \/ level.t = "string" /\ level.s \in {"fast", "balanced", "best"}

\* C14: for every algorithm, every valid level and every B (the empty one
\* included), compress(B) succeeds and decompress of its payload succeeds
\* and returns B.
C14_OneShotRoundTrip ==
  ValidLevel(osLevel) =>
    /\ osPc # "failed"
    /\ (osPc = "done" /\ compressed.adapterCalled) =>
         outcome = [status |-> "ok", err |-> "none", size |-> osSize]

RetriesExhausted ==
  /\ adapter.retries = MAX_RETRIES
  /\ adapter.ret = "null"
  /\ \/ osAlg # "xz" /\ adapter.result = TooSmall(osAlg)
     \/ osAlg = "xz" /\ adapter.result = "LZMA_OK"
          /\ adapter.alloc_size = adapter.produced

\* C16: when a one-shot decompression runs out of its 10 buffer doublings,
\* the caller's call fails with the error code BUFFER_TOO_SMALL.
C16_ExhaustionIsBufferTooSmall ==
  (osPc = "done" /\ RetriesExhausted) => outcome.err = "BUFFER_TOO_SMALL"

\* the decoded size is within 2^10 times the start size of the buffer
FitsCeiling(p) == (p.size + 1023) \div 1024 <= InitialAlloc(p.len)

\* C17: a valid payload that does not carry its decoded size, and whose
\* output fits within the growth ceiling, decompresses successfully.
C17_UnknownSizeGrows ==
  (osPc = "done" /\ payload.kind = "valid" /\ ~payload.known
     /\ payload.len > 0 /\ FitsCeiling(payload))
    => outcome = [status |-> "ok", err |-> "none", size |-> payload.size]

\* compress() or new CompressStream() has been called
CompressCalled == compressed # NotCompressed

\* C18: a compress call (one-shot or streaming, empty input included) whose
\* requested level is neither an integer in 1..10 nor a preset fails with
\* INVALID_LEVEL and does not reach the codec adapter.
C18_LevelValidatedBeforeAdapter ==
  (CompressCalled /\ ~ValidLevel(osLevel)) =>
     /\ compressed.err = "INVALID_LEVEL"
     /\ ~compressed.adapterCalled

\* C19: normalizeLevel fails with INVALID_LEVEL for every number that is not
\* an integer in 1..10 and for every string that is not a preset name.
C19_InvalidLevelRejected ==
  (normalized # NotRun /\ osLevel.t \in {"number", "string"}
     /\ ~ValidLevel(osLevel))
    => normalized = Thrown("INVALID_LEVEL")

\* C20: normalizeLevel(undefined, A) returns 5 for every algorithm A.
C20_DefaultLevelIsFive ==
  (normalized # NotRun /\ osLevel = Undefined) => normalized = Returned(Num(5, 1))

\* normalizeLevel(undefined, "lz4") has been evaluated
C20_Witness ==
  /\ osAlg = "lz4" /\ osLevel = Undefined
  /\ normalized # NotRun
  /\ normalized.value.n = 5

\* compress() or the stream constructor resolved unified level u to the
\* native level handed to the adapter
ResolvedLevel(u) ==
  /\ compressed.validated /\ compressed.err # "INVALID_LEVEL"
  /\ normalized = Returned(Num(u, 1))

\* C21: for every algorithm the native level at unified level 1 is the
\* algorithm's native minimum and at unified level 10 its native maximum
\* (zstd 1/22, brotli 0/11, zlib 1/9, bz2 1/9, lz4 1/12, xz 0/9).
C21_EndpointsMapToNativeRange ==
  /\ ResolvedLevel(1) =>
       /\ compressed.native = ALGORITHM_MIN_LEVELS[osAlg]
       /\ compressed.native = IF osAlg \in {"brotli", "xz"} THEN 0 ELSE 1
  /\ ResolvedLevel(10) =>
       /\ compressed.native = ALGORITHM_MAX_LEVELS[osAlg]
       /\ compressed.native =
            CASE osAlg = "zstd" -> 22 [] osAlg = "brotli" -> 11
              [] osAlg = "lz4" -> 12 [] OTHER -> 9

\* level 10 of lz4 has been resolved to 12
C21_Witness ==
  /\ osAlg = "lz4" /\ osLevel = Num(10, 1)
  /\ ResolvedLevel(10) /\ compressed.native = 12

\* C22: for every algorithm and all unified levels a <= b in 1..10,
\* mapToNative(a) <= mapToNative(b).
C22_MapToNativeMonotone ==
  \A a \in 1..10 : ResolvedLevel(a) =>
     \A b \in a..10 :
        compressed.native <= ToInt32(mapLevelToAlgorithm(Num(b, 1), osAlg))

\* an intermediate level has been resolved strictly between the endpoints
C22_Witness ==
  /\ osAlg = "zstd" /\ ResolvedLevel(4)
  /\ compressed.native > ToInt32(mapLevelToAlgorithm(Num(1, 1), osAlg))
  /\ compressed.native < ToInt32(mapLevelToAlgorithm(Num(10, 1), osAlg))

\* ------------------------------------------------------------------------
\* The LZ4 streaming compressor adapter driven by write and finish calls
\* ------------------------------------------------------------------------
MaxBlocks == 2

Lz4BlockInit == StreamIdle /\ LoaderIdle /\ OneShotIdle /\ Lz4Idle /\ PairIdle /\ CApiIdle

\* cu_stream_compress_write(ctx, input, len, output, cap) for chunk lengths
\* up to and beyond the block size and for the default output buffer and
\* twice that; a copy that runs past the ring buffer is undefined: the call
\* may go on or the module traps
Lz4Write ==
  /\ lz4Stream.state = "open"
  /\ Len(lz4Stream.blocks) < MaxBlocks
  /\ \E len \in {1, 12, 300, 65535, 65536, 70000}, kind \in {"run", "random"}, cap \in {65536, 131072} :
       \E trap \in BOOLEAN :
         LET step(r) ==
               /\ trap => ~r.inside
               /\ lz4Stream' =
                    IF trap THEN [lz4Stream EXCEPT !.state = "trapped"]
                    ELSE [ring_pos |-> r.ctx.ring_pos,
                          finished |-> r.ctx.finished,
                          blocks |-> lz4Stream.blocks \o r.block,
                          state |-> IF r.rc < 0 THEN "failed" ELSE "open"]
         IN  step(lz4_sized_cu_stream_compress_write(
                    [ring_pos |-> lz4Stream.ring_pos, finished |-> lz4Stream.finished],
                    len, kind, cap))
  /\ UNCHANGED <<streamVars, loaderVars, oneShotVars, pair, capi>>

\* cu_stream_compress_finish(ctx, output, cap)
Lz4Finish ==
  /\ lz4Stream.state = "open"
  /\ ~lz4Stream.finished
  /\ \E cap \in {65536, 131072} :
       LET step(r) ==
             lz4Stream' = [ring_pos |-> r.ctx.ring_pos,
                           finished |-> r.ctx.finished,
                           blocks |-> lz4Stream.blocks \o r.block,
                           state |-> "open"]
       IN  step(lz4_sized_cu_stream_compress_finish(
                  [ring_pos |-> lz4Stream.ring_pos, finished |-> lz4Stream.finished],
                  cap))
  /\ UNCHANGED <<streamVars, loaderVars, oneShotVars, pair, capi>>

Lz4BlockSpec == Lz4BlockInit /\ [][Lz4Write \/ Lz4Finish]_vars

\* C23: every block the LZ4 streaming compressor emits carries, in its two
\* 16-bit little-endian header fields, the number of input bytes encoded in
\* the block and the length of the compressed block that follows, for every
\* write size the adapter accepts.
C23_BlockHeaderMatchesBlock ==
  \A i \in 1..Len(lz4Stream.blocks) :
     /\ lz4Stream.blocks[i].header.original = lz4Stream.blocks[i].encoded
     /\ lz4Stream.blocks[i].header.compressed = lz4Stream.blocks[i].size

\* C24: the byte stream an LZ4 compression session emits ends with exactly
\* one zero/zero end-of-stream marker, emitted by finish after all data
\* blocks, with nothing after it (stated for output buffers that can hold
\* the four marker bytes).
C24_SingleEndMarker ==
  (alg = "lz4" /\ mode = "compress" /\ lastOp.op = "close" /\ ~lastOp.fast
     /\ bufferSize >= 4 /\ state \in {"closed", "hung"})
    => {i \in 1..Len(emitted) : emitted[i] = <<0, 0, 0, 0>>} = {Len(emitted)}

\* C25: the LZ4 one-shot payload of an input of n >= 0 bytes starts with n
\* as an unsigned 32-bit little-endian integer followed by the compressed
\* block, and one-shot decompression of the payload returns exactly the n
\* bytes; for n = 0 the header is 00 00 00 00 and decompression yields 0
\* bytes without error.
C25_Lz4OneShotHeader ==
  (alg = "lz4" /\ mode = "decompress") =>
     /\ Len(source) > 4
     /\ source[1] + 256 * source[2] + 65536 * source[3] + 16777216 * source[4]
          = Len(original)
     /\ Drop(source, 4) = LZ4_compress(original, compressBound(Len(original)))
     /\ lz4_cu_decompress(source).ok
     /\ Len(lz4_cu_decompress(source).data) = Len(original)
     /\ lz4_cu_decompress(source).data = original
     /\ original = <<>> => Take(source, 4) = <<0, 0, 0, 0>>

\* the payload of the empty input and the payload of a three-byte input
C25_Witness ==
  /\ alg = "lz4" /\ mode = "decompress"
  /\ \/ original = <<>> /\ source = <<0, 0, 0, 0, 0>>
     \/ Len(original) = 3 /\ Take(source, 4) = <<3, 0, 0, 0>>

\* C26: within one session output is emitted in the order of the inputs
\* that produced it: a write or finish only adds its chunks after everything
\* emitted before, and nothing is emitted once finish has run.
C26_OutputInInputOrder ==
  [][/\ Len(emitted') >= Len(emitted)
     /\ Take(emitted', Len(emitted)) = emitted
     /\ emitted' # emitted => state = "writable" /\ lastOp'.op \in {"write", "close"}
     /\ state \in {"closed", "errored", "hung"} => emitted' = emitted]_vars

\* two writes and the finish have each emitted a chunk
C26_Witness ==
  /\ state = "closed" /\ writes >= 2 /\ Len(emitted) >= 3

\* C27: every chunk a session emits is a fresh copy: later write and finish
\* calls, which overwrite the session's output buffer, never change the
\* contents of a chunk emitted before.
C27_EmittedChunksAreCopies ==
  /\ Len(chunkRefs) = Len(emitted)
  /\ \A i \in 1..Len(chunkRefs) :
        ChunkContents(chunkRefs[i], outBuf) = emitted[i]

\* the output buffer has been overwritten after a chunk was emitted
C27_Witness ==
  /\ Len(emitted) >= 2
  /\ emitted[1] # Take(outBuf, Len(emitted[1]))
  /\ ChunkContents(chunkRefs[1], outBuf) = emitted[1]

\* ------------------------------------------------------------------------
\* The caller-facing layer as a whole: a caller that uses either a streaming
\* session or the one-shot functions
\* ------------------------------------------------------------------------
ApiInit == (StreamInit /\ LoaderIdle /\ OneShotIdle /\ Lz4Idle /\ PairIdle /\ CApiIdle) \/ (StreamIdle /\ LoaderIdle /\ OneShotInit /\ osLevel \in {Undefined, Str("toString")} /\ Lz4Idle /\ PairIdle /\ CApiIdle)

ApiSpec == ApiInit /\ [][Next \/ OneShotNext]_vars

\* C28: every null pointer or -1 a codec adapter operation returns, one-shot
\* or streaming, reaches the caller as a typed error of the module's
\* algorithm; the sentinel is never returned, nor used as an output pointer
\* or length.
C28_SentinelsBecomeTypedErrors ==
  /\ [](/\ adapterFailed =>
             /\ state = "errored"
             /\ storedError = IF mode = "compress" THEN "COMPRESSION_FAILED"
                              ELSE "DECOMPRESSION_FAILED"
        /\ (state # "starting" /\ ctx = 0) =>
             /\ state = "errored" /\ storedError = "WASM_INIT_FAILED"
             /\ emitted = <<>>
        /\ (osPc = "done" /\ adapter.ret = "null") =>
             outcome = [status |-> "error", err |-> "DECOMPRESSION_FAILED", size |-> 0]
        /\ (compressed.adapterCalled /\ ~LibraryAcceptsLevel(osAlg, compressed.native)) =>
             /\ compressed.err = "COMPRESSION_FAILED"
             /\ compressed.payload.len = 0)
  /\ [][(adapterFailed' /\ ~adapterFailed) =>
          /\ emitted' = emitted
          /\ lastOp'.res = storedError']_vars

\* a streaming adapter call returned -1 and a one-shot cu_decompress
\* returned a null pointer
C28_Witness ==
  /\ adapterFailed /\ state = "errored"
  /\ osPc = "done" /\ adapter.ret = "null" /\ outcome.status = "error"

\* ------------------------------------------------------------------------
\* Two compression sessions whose callbacks interleave
\* ------------------------------------------------------------------------
MaxPairWrites == 2

PairInit == StreamIdle /\ LoaderIdle /\ OneShotIdle /\ Lz4Idle /\ PairIdle /\ CApiIdle

\* new CompressStream() and its start(): create the context, allocate the
\* output buffer
PairStart(s) ==
  /\ pair.sessions[s].phase = "none"
  /\ \E a \in Algorithms, bs \in BufferSizes :
       LET started(cx) ==
             LET h1 == [pair.heap EXCEPT ![cx] = [used |-> TRUE, ctx |-> NewContext]]
                 op == cu_stream_compress_create(h1)
             IN  pair' = [sessions |->
                            [pair.sessions EXCEPT ![s] =
                               [phase |-> "open", alg |-> a, bufferSize |-> bs,
                                ctx |-> cx, outputPtr |-> op, ops |-> <<>>,
                                emitted |-> <<>>]],
                          heap |-> [h1 EXCEPT ![op].used = TRUE]]
       IN  started(cu_stream_compress_create(pair.heap))
  /\ UNCHANGED <<streamVars, loaderVars, oneShotVars, lz4Stream, capi>>

\* writer.write(chunk) on session s
PairWrite(s) ==
  /\ pair.sessions[s].phase = "open"
  /\ Len(pair.sessions[s].ops) < MaxPairWrites
  /\ \E chunk \in {<<1>>, <<2, 1>>} :
       LET me == pair.sessions[s]
           op == [kind |-> "write", chunk |-> chunk]
           done(r) ==
             pair' = [sessions |->
                        [pair.sessions EXCEPT ![s] =
                           [me EXCEPT !.ops = Append(me.ops, op),
                                      !.emitted = r.emitted,
                                      !.phase = r.phase]],
                      heap |-> [pair.heap EXCEPT ![me.ctx].ctx = r.ctx]]
       IN  done(SessionApply(me.alg, me.bufferSize, pair.heap[me.ctx].ctx,
                             me.emitted, op))
  /\ UNCHANGED <<streamVars, loaderVars, oneShotVars, lz4Stream, capi>>

\* writer.close() on session s; flush releases the context and the buffer
\* unless its loop never ends
PairClose(s) ==
  /\ pair.sessions[s].phase = "open"
  /\ LET me == pair.sessions[s]
         op == [kind |-> "close", chunk |-> <<>>]
         done(r) ==
           pair' = [sessions |->
                      [pair.sessions EXCEPT ![s] =
                         [me EXCEPT !.ops = Append(me.ops, op),
                                    !.emitted = r.emitted,
                                    !.phase = r.phase]],
                    heap |-> IF r.phase = "hung"
                             THEN [pair.heap EXCEPT ![me.ctx].ctx = r.ctx]
                             ELSE [pair.heap EXCEPT
                                     ![me.ctx] = [used |-> FALSE, ctx |-> NewContext],
                                     ![me.outputPtr] = [used |-> FALSE, ctx |-> NewContext]]]
     IN  done(SessionApply(me.alg, me.bufferSize, pair.heap[me.ctx].ctx,
                           me.emitted, op))
  /\ UNCHANGED <<streamVars, loaderVars, oneShotVars, lz4Stream, capi>>

PairSpec == PairInit /\ [][\E s \in 1..2 : PairStart(s) \/ PairWrite(s) \/ PairClose(s)]_vars

CApiInit == StreamIdle /\ LoaderIdle /\ OneShotIdle /\ Lz4Idle /\ PairIdle /\ CApiIdle

\* thread t calls compress_data or decompress_data; foreign: the C++ layer
\* throws something that is not a std::exception
CApiCall(t) ==
  /\ \E op \in {"compress_data", "decompress_data"}, size \in {0, 1, 5},
        algorithm \in {"ZLIB", "ZSTD", "LZ4"}, level \in {0, 1, 10, 11},
        codecFails \in BOOLEAN, foreign \in BOOLEAN, mallocOK \in BOOLEAN :
       LET thrown(r) == IF foreign /\ ~r.threw
                        THEN [threw |-> TRUE, std |-> FALSE, size |-> 0, what |-> ""]
                        ELSE r
           unknown == IF op = "compress_data"
                      THEN "Unknown error occurred during compression"
                      ELSE "Unknown error occurred during decompression"
           done(r, c) ==
             capi' = [g_last_error |-> SetLastError(capi.g_last_error, t, c.error),
                      last |-> [capi.last EXCEPT ![t] =
                                  [op |-> op, ret |-> c.ret,
                                   failed |-> r.threw \/ ~mallocOK,
                                   what |-> IF r.threw /\ r.std THEN r.what
                                            ELSE IF r.threw THEN unknown
                                            ELSE "Memory allocation failed",
                                   size |-> r.size]]]
           call(r) == done(r, compress_data(r, mallocOK, unknown))
       IN  IF op = "compress_data"
           THEN call(thrown(compress_utils_Compress(size, algorithm, level, codecFails)))
           ELSE /\ level = 1
                /\ call(thrown(compress_utils_Decompress(size, algorithm, codecFails)))
  /\ UNCHANGED <<streamVars, loaderVars, oneShotVars, lz4Stream, pair>>

\* thread t calls compress_utils_clear_error()
CApiClearError(t) ==
  /\ capi.last[t].op \in {"compress_data", "decompress_data"}
  /\ capi' = [g_last_error |-> SetLastError(capi.g_last_error, t, ""),
              last |-> [capi.last EXCEPT ![t].op = "clear_error"]]
  /\ UNCHANGED <<streamVars, loaderVars, oneShotVars, lz4Stream, pair>>

CApiSpec == CApiInit /\ [][\E t \in 1..2 : CApiCall(t) \/ CApiClearError(t)]_vars

\* C30: compress_data and decompress_data return -1 exactly when the
\* operation failed (the C++ layer threw, or the output buffer could not be
\* allocated); compress_utils_last_error() called next on the same thread
\* then returns a non-empty message for that failure; otherwise they return
\* the output size, which is >= 0.
C30_MinusOneIffFailedWithMessage ==
  \A t \in 1..2 :
     capi.last[t].op \in {"compress_data", "decompress_data"} =>
        /\ capi.last[t].ret = -1 <=> capi.last[t].failed
        /\ capi.last[t].failed =>
             /\ capi.g_last_error[t] # ""
             /\ capi.g_last_error[t] = capi.last[t].what
        /\ ~capi.last[t].failed =>
             /\ capi.last[t].ret = capi.last[t].size
             /\ capi.last[t].ret >= 0

\* one thread's call failed with an exception and the other thread's later
\* call succeeded
C30_Witness ==
  /\ capi.last[1].op = "decompress_data" /\ capi.last[1].ret = -1
  /\ capi.g_last_error[1] = "Decompression failed"
  /\ capi.last[2].op = "compress_data" /\ capi.last[2].ret = 13
  /\ capi.g_last_error[2] = ""

\* C31: compress_utils_last_error() reflects only the most recent
\* compress_data/decompress_data call of the calling thread: it is empty when
\* that call succeeded, when no call was made and after
\* compress_utils_clear_error, whatever failed earlier on this thread, and no
\* call of another thread changes it.
C31_LastErrorIsOfLastCallOnThread ==
  /\ [](\A t \in 1..2 :
          capi.g_last_error[t] =
            IF capi.last[t].op \in {"compress_data", "decompress_data"} /\ capi.last[t].failed
            THEN capi.last[t].what ELSE "")
  /\ [][\A t \in 1..2 : capi.last[t]' = capi.last[t] =>
                          capi.g_last_error[t]' = capi.g_last_error[t]]_vars

\* thread 1 cleared its error after a call while thread 2's last call failed
C31_Witness ==
  /\ capi.last[1].op = "clear_error" /\ capi.last[1].failed
  /\ capi.g_last_error[1] = ""
  /\ capi.last[2].op = "compress_data" /\ capi.last[2].ret = -1
  /\ capi.g_last_error[2] = "Memory allocation failed"

\* C32: one-shot decompression of a payload whose decoded size is unknown
\* starts with an output buffer of max(16 KiB, 4 x input size) bytes.
C32_StartSizeSixteenKiB ==
  (/\ osPc \in {"loop", "done"}
   /\ adapter.start_size > 0
   /\ \/ osAlg \in {"zlib", "brotli", "bz2", "xz"}
      \/ osAlg = "zstd" /\ ZSTD_getFrameContentSize(payload) = -1)
    => adapter.start_size =
         IF 4 * payload.len < 16 * 1024 THEN 16 * 1024 ELSE 4 * payload.len

\* C33: every write of the zstd adapter (compress or decompress) that does
\* not fail consumes the whole input passed to it, for every input length
\* and output capacity.
C33_ZstdWriteConsumesAll ==
  [][(/\ alg = "zstd"
      /\ writes' = writes + 1
      /\ lastOp'.res = "ok")
       => consumed' - consumed = fed' - fed]_vars

\* C34: for every compress call that reaches a codec adapter, the native
\* level passed to the adapter is mapToNative(normalizeLevel(requested
\* level, A), A), for every input including the empty one.
C34_NativeLevelDerivedFromUnified ==
  (CompressCalled /\ compressed.adapterCalled) =>
     /\ ~normalizeLevel(osLevel, osAlg).threw
     /\ compressed.native =
          ToInt32(mapLevelToAlgorithm(normalizeLevel(osLevel, osAlg).value, osAlg))

\* C35: in the LZ4 streaming compressor every copy of input into the ring
\* buffer stays inside its 65536 bytes: ring_pos + bytes copied <= 65536 at
\* every write, for every sequence of write sizes.
C35_RingCopyInsideBuffer ==
  /\ [](lz4Stream.state # "trapped")
  /\ [][Len(lz4Stream.blocks') = Len(lz4Stream.blocks) + 1 =>
          lz4Stream.ring_pos + lz4Stream.blocks'[Len(lz4Stream.blocks')].encoded
            <= RING_BUFFER_SIZE]_vars

\* C36: every adapter stream write or finish call that does not report
\* failure returns a byte count between 0 and the output capacity and writes
\* no byte outside the first output_cap bytes of the output buffer, for
\* every capacity including those smaller than 4: it holds for every chunk
\* enqueued so far and for every call the session can make next.
C36_OutputWithinCapacity ==
  LET within(r) == r.rc >= 0 => (r.rc <= bufferSize /\ Len(r.out) <= bufferSize)
  IN  /\ \A i \in 1..Len(emitted) : Len(emitted[i]) \in 1..bufferSize
      /\ Len(outBuf) <= bufferSize
      /\ ctxMem = "live" =>
           \A fault \in BOOLEAN :
              /\ \A n \in 0..(Len(source) - fed) :
                   IF mode = "compress"
                   THEN within(cu_stream_compress_write(
                                 alg, cctx, SubSeq(source, fed + 1, fed + n), bufferSize, fault))
                   ELSE within(cu_stream_decompress_write(
                                 alg, cctx, SubSeq(source, fed + 1, fed + n), bufferSize, fault))
              /\ mode = "compress" =>
                   within(cu_stream_compress_finish(alg, cctx, bufferSize, fault))

\* a write filled an output buffer of fewer than 4 bytes completely
C36_Witness ==
  /\ bufferSize < 4 /\ mode = "compress"
  /\ emitted # <<>> /\ Len(emitted[1]) = bufferSize
  /\ lastOp = [op |-> "write", res |-> "ok", fast |-> FALSE]

\* C37: after clearModuleCache() no instance of an initialization started
\* before the clear re-enters the ready cache or is handed to a getModule
\* call made later, even when that initialization was still in flight at
\* the clear; such a call starts a fresh initialization.
C37_ClearDropsEarlierInits ==
  /\ [](\A a \in LoaderAlgorithms : moduleCache[a] \notin startedBeforeClear)
  /\ [][\A i \in DOMAIN requests :
          (requests[i].pc = "loading" /\ requests'[i].pc # "loading") =>
             /\ requests'[i].p \notin startedBeforeClear
             /\ requests'[i].result \notin startedBeforeClear]_vars

\* C38: absent a cache clear, whenever a getModule(A) call resolves (the
\* call that started the initialization and every call that joined it), the
\* ready cache holds the instance it receives at the moment the caller
\* resumes: isModuleLoaded(A) is true.
C38_ResolvedImpliesLoaded ==
  [][\A i \in DOMAIN requests :
       (requests[i].pc # "resolved" /\ requests'[i].pc = "resolved" /\ ~cleared')
         => /\ moduleCache'[requests[i].alg] # 0
            /\ moduleCache'[requests[i].alg] = requests'[i].result]_vars

\* a call that joined an initialization in flight has resumed with the
\* module and the cache holds that module
C38_Witness ==
  \E i \in DOMAIN requests :
    /\ ~cleared
    /\ requests[i].via = "attach" /\ requests[i].pc = "resolved"
    /\ requests[i].result # 0
    /\ moduleCache[requests[i].alg] = requests[i].result

====
